---- MODULE Spec2Model ----
(***************************************************************************)
(* Model of lsst::ip::diffim (image subtraction kernel fitting).           *)
(*                                                                         *)
(* Part 1: getCollectionOfFootprintsForPsfMatching (ImageSubtract.cc),     *)
(* the footprint selector.  One call of the function is followed from its  *)
(* entry to its return or throw (Spec, FairSpec).                          *)
(* Part 2: convolveAndSubtract (ImageSubtract.cc), one call of either      *)
(* overload followed statement by statement (SubtractSpec).                *)
(* Part 3: SpatialModelCell (SpatialModelCell.h), one cell under the calls *)
(* of one thread (CellSpec) and of two workers (WorkerSpec).               *)
(* Part 4: ImageStatistics (ImageSubtract.h), one functor applied to the   *)
(* pixels of a footprint (StatsSpec).                                      *)
(* Part 5: two calls of the footprint selector on one image pair, whose    *)
(* steps may interleave (TwoCallSpec).                                     *)
(* Part 6: BuildSpatialKernelVisitor (BuildSpatialKernelVisitor.h), one    *)
(* visitor shown the candidates in any order, then solved (VisitorSpec).   *)
(* A behaviour follows one part; the variables of the others stay idle.    *)
(*                                                                         *)
(* Conventions                                                             *)
(*  - a pixel is <<x, y>>; an image of Width x Height pixels has the local *)
(*    pixels (0..Width-1) \X (0..Height-1) and an origin XY0 in the parent *)
(*    frame; Footprints live in the parent frame.                          *)
(*  - a Footprint is the set of its pixels (its spans flattened).          *)
(*  - a mask pixel is the set of the names of the mask planes set in it    *)
(*    (bit i of the MaskPixel <-> name of plane i); "bits > 0" is "the set *)
(*    is not empty", "|" is \cup.                                          *)
(*  - a double is an exact fraction [n |-> numerator, d |-> denominator],  *)
(*    d > 0, in lowest terms; a positive value that falls below the        *)
(*    smallest representable magnitude becomes 0 (underflow).              *)
(*    Where NaN and infinities matter (ImageStatistics, the spatial fit)   *)
(*    a double carries a kind as well: [k, n, d].                          *)
(***************************************************************************)
EXTENDS Integers, Sequences, FiniteSets, TLC

\* ---------------------------------------------------------------- bounds
\* Image dimensions (getWidth(), getHeight()) of the two input images.
Width == 5
Height == 3
\* The pass counter kept for the analysis saturates here.
MaxPass == 6
\* A double is halved this many times below 1 before it underflows to 0
\* (1074 for an IEEE double; the model uses a narrower exponent range).
MaxHalvings == 3

\* ------------------------------------------------------------ arithmetic
Min2(a, b) == IF a <= b THEN a ELSE b
Max2(a, b) == IF a >= b THEN a ELSE b
Abs(a) == IF a < 0 THEN -a ELSE a

RECURSIVE Gcd(_, _)
Gcd(a, b) == IF b = 0 THEN a ELSE Gcd(b, a % b)

RECURSIVE Pow2(_)
Pow2(k) == IF k = 0 THEN 1 ELSE 2 * Pow2(k - 1)

Frac(n, d) == [n |-> n, d |-> d]

\* Lowest terms, positive denominator; magnitudes under 2^-MaxHalvings flush to 0.
Normalize(n, d) ==
    LET g == Gcd(Abs(n), d)
        r == Frac(n \div g, d \div g)
    IN  IF n = 0 THEN Frac(0, 1)
        ELSE IF Abs(r.n) * Pow2(MaxHalvings) < r.d THEN Frac(0, 1)
        ELSE r

\* a * b on doubles
Times(a, b) == Normalize(a.n * b.n, a.d * b.d)
\* a > b on doubles
Greater(a, b) == a.n * b.d > b.n * a.d

\* ------------------------------------------ doubles with NaN and infinity
\* A double that may be NaN or infinite: k is "num" for the finite value
\* n / d (lowest terms, d > 0), "nan", "inf" or "ninf".  Finite arithmetic
\* is exact.
Dbl(n, d) ==
    LET g == Gcd(Abs(n), Abs(d))
        sgn == IF d < 0 THEN -1 ELSE 1
    IN  [k |-> "num", n |-> sgn * (n \div g), d |-> sgn * (d \div g)]
NaN == [k |-> "nan", n |-> 0, d |-> 1]
Inf == [k |-> "inf", n |-> 0, d |-> 1]
NegInf == [k |-> "ninf", n |-> 0, d |-> 1]
isnan(a) == a.k = "nan"

\* the sign of a double that is not NaN
Sign(a) ==
    IF a.k = "inf" THEN 1
    ELSE IF a.k = "ninf" THEN -1
    ELSE IF a.n > 0 THEN 1 ELSE IF a.n < 0 THEN -1 ELSE 0

\* -a
DNeg(a) ==
    IF a.k = "num" THEN Dbl(-a.n, a.d)
    ELSE IF a.k = "inf" THEN NegInf
    ELSE IF a.k = "ninf" THEN Inf
    ELSE NaN

\* a + b: inf + -inf is NaN
DAdd(a, b) ==
    IF isnan(a) \/ isnan(b) THEN NaN
    ELSE IF a.k = "num" /\ b.k = "num" THEN Dbl(a.n * b.d + b.n * a.d, a.d * b.d)
    ELSE IF a.k = "num" THEN b
    ELSE IF b.k = "num" THEN a
    ELSE IF a.k = b.k THEN a
    ELSE NaN

\* a - b
DSub(a, b) == DAdd(a, DNeg(b))

\* a * b: 0 * inf is NaN
DMul(a, b) ==
    IF isnan(a) \/ isnan(b) THEN NaN
    ELSE IF a.k = "num" /\ b.k = "num" THEN Dbl(a.n * b.n, a.d * b.d)
    ELSE IF Sign(a) * Sign(b) > 0 THEN Inf
    ELSE IF Sign(a) * Sign(b) < 0 THEN NegInf
    ELSE NaN

\* a / b: x / 0 is inf with the sign of x, 0 / 0 and inf / inf are NaN (the
\* zeros met here are +0)
DDiv(a, b) ==
    IF isnan(a) \/ isnan(b) THEN NaN
    ELSE IF b.k = "num" /\ b.n # 0
         THEN IF a.k = "num" THEN Dbl(a.n * b.d, a.d * b.n)
              ELSE IF Sign(a) * Sign(b) > 0 THEN Inf ELSE NegInf
    ELSE IF b.k = "num"
         THEN IF Sign(a) > 0 THEN Inf ELSE IF Sign(a) < 0 THEN NegInf ELSE NaN
    ELSE IF a.k = "num" THEN Dbl(0, 1)
    ELSE NaN

\* sqrt of an integer that is a perfect square; NaN below 0
DSqrt(v) ==
    IF v < 0 THEN NaN ELSE Dbl(CHOOSE r \in 0 .. v : r * r = v, 1)

\* ------------------------------------------------------------- geometry
Pixels == (0 .. Width - 1) \X (0 .. Height - 1)

SetMin(S) == CHOOSE v \in S : \A w \in S : v <= w
SetMax(S) == CHOOSE v \in S : \A w \in S : v >= w

\* Footprint::getBBox(): the inclusive bounding box of the pixels
getBBox(fp) ==
    [x0 |-> SetMin({p[1] : p \in fp}), y0 |-> SetMin({p[2] : p \in fp}),
     x1 |-> SetMax({p[1] : p \in fp}), y1 |-> SetMax({p[2] : p \in fp})]

\* BBox::shift(dx, dy)
shift(bb, dx, dy) ==
    [x0 |-> bb.x0 + dx, y0 |-> bb.y0 + dy, x1 |-> bb.x1 + dx, y1 |-> bb.y1 + dy]

\* Footprint::getNpix()
getNpix(fp) == Cardinality(fp)

\* parent-frame position of a local pixel, and back
ToParent(p, xy0) == <<p[1] + xy0[1], p[2] + xy0[2]>>
ToLocal(q, xy0) == <<q[1] - xy0[1], q[2] - xy0[2]>>

\* detection::growFootprint(foot, ngrow, false): "manhattan grow", every
\* pixel within city-block distance ngrow of a pixel of the footprint.  The
\* result is not clipped to the image.
growFootprint(fp, ngrow) ==
    LET bb == getBBox(fp)
    IN  {q \in (bb.x0 - ngrow .. bb.x1 + ngrow) \X (bb.y0 - ngrow .. bb.y1 + ngrow) :
            \E p \in fp : Abs(q[1] - p[1]) + Abs(q[2] - p[2]) <= ngrow}

\* ------------------------------------------------------------ detection
\* Two pixels touch when they are neighbours, diagonals included.
Touch(p, q) == Abs(p[1] - q[1]) <= 1 /\ Abs(p[2] - q[2]) <= 1

\* The connected set of pixels of S grown from the seed set C.
Flood(C, S) ==
    LET grow[D \in SUBSET S] ==
            LET more == {q \in S \ D : \E p \in D : Touch(p, q)}
            IN  IF more = {} THEN D ELSE grow[D \cup more]
    IN  grow[C]

\* Scan order of the detection: row by row, left to right.
ScanIndex(p) == p[2] * Width + p[1]
FirstPixel(S) == CHOOSE p \in S : \A q \in S : ScanIndex(p) <= ScanIndex(q)

\* The connected components of S, in the order their first pixel is scanned.
Components(S) ==
    LET comps[R \in SUBSET S] ==
            IF R = {} THEN << >>
            ELSE LET c == Flood({FirstPixel(R)}, R)
                 IN  <<c>> \o comps[R \ c]
    IN  comps[S]

\* detection::FootprintSet(image, threshold, "", npixMin).getFootprints():
\* the connected regions of pixels with value >= threshold that hold at least
\* npixMin pixels, in scan order, in the parent frame.
FootprintSet(img, xy0, threshold, npixMin) ==
    LET above == {p \in Pixels : img[p] * threshold.d >= threshold.n}
        Big(c) == getNpix(c) >= npixMin
        comps == SelectSeq(Components(above), Big)
    IN  [k \in 1 .. Len(comps) |-> {ToParent(p, xy0) : p \in comps[k]}]

\* ---------------------------------------------------------------- masks
\* Names of the mask planes.  "BAD" stands for the planes the images carry
\* on entry; the other two are the planes the selector adds.
BadPlane == "BAD"
diffimStampCandidateStr == "DIFFIM_STAMP_CANDIDATE"
diffimStampUsedStr == "DIFFIM_STAMP_USED"
MaskPlanes == {BadPlane, diffimStampCandidateStr, diffimStampUsedStr}

\* (mutation) the plane is left as it is
clearMaskPlane_NoOp(mask, plane) == mask

\* Mask::clearMaskPlane(plane): the plane's bit is cleared in every pixel
clearMaskPlane(mask, plane) == [p \in Pixels |-> mask[p] \ {plane}]

\* (mutation) no pixel is marked
setMaskFromFootprint_NoOp(mask, xy0, fp, bitmask) == mask

\* (mutation) the "used" bit is set along with the bits asked for
setMaskFromFootprint_Used(mask, xy0, fp, bitmask) ==
    [p \in Pixels |-> IF ToParent(p, xy0) \in fp
                      THEN mask[p] \cup bitmask \cup {diffimStampUsedStr}
                      ELSE mask[p]]

\* detection::setMaskFromFootprint(mask, foot, bitmask): the bits are OR-ed
\* into every pixel of the footprint (the footprint is in the parent frame)
setMaskFromFootprint(mask, xy0, fp, bitmask) ==
    [p \in Pixels |-> IF ToParent(p, xy0) \in fp THEN mask[p] \cup bitmask ELSE mask[p]]

\* FindSetBits::reset()
FindSetBits_reset(bits) == {}

\* (mutation) operator() assigns, _bits = *loc: the bits of the pixel visited
\* last are all that is kept
FindSetBits_apply_Assign(bits, mask, xy0, fp) ==
    mask[ToLocal(CHOOSE q \in fp : \A r \in fp : ScanIndex(r) <= ScanIndex(q), xy0)]

\* (mutation) apply() does not reset: the bits found in the footprints
\* scanned before stay in the accumulator
FindSetBits_apply_CarryOver(bits, mask, xy0, fp) ==
    bits \cup UNION {mask[ToLocal(q, xy0)] : q \in fp}

\* FindSetBits::apply(foot), inherited from FootprintFunctor: reset() is
\* called, then operator() on every pixel of the footprint: _bits |= *loc
FindSetBits_apply(bits, mask, xy0, fp) ==
    FindSetBits_reset(bits) \cup UNION {mask[ToLocal(q, xy0)] : q \in fp}

\* MaskedImage(image, bbox): the sub-image constructor throws when the box,
\* given in the image's own pixel coordinates, does not fit in the image
SubimageThrows(bb) ==
    ~(bb.x0 >= 0 /\ bb.y0 >= 0 /\ bb.x1 <= Width - 1 /\ bb.y1 <= Height - 1)

\* ------------------------------------------------------------- selector
VARIABLES
    itcImage,          \* imageToConvolve: pixel values, by local pixel
    itcMask,           \* imageToConvolve.getMask()
    itncMask,          \* imageToNotConvolve.getMask()
    xy0,               \* getX0(), getY0() of the two (co-registered) images
    policy,            \* the Policy of the call
    pc,                \* "while": at the loop test; "for": in the loop over
                       \* footprints; "returned"; "thrown"
    detThreshold,      \* local detThreshold
    nCleanFp,          \* local nCleanFp
    footprintListIn,   \* local footprintListIn
    i,                 \* position of the iterator i in footprintListIn (1-based)
    footprintListOut,  \* local footprintListOut
    itcBits,           \* itcFunctor._bits
    itncBits,          \* itncFunctor._bits
    nPass,             \* history: passes begun, saturating at MaxPass
    passThreshold,     \* history: threshold of the pass begun last
    prevThreshold,     \* history: threshold of the pass before it
    everAccepted,      \* history: some pass of this call accepted a footprint
    lastFp,            \* history: the footprint the loop body ran on last
    lastVerdict        \* history: how that run of the loop body ended

\* convolveAndSubtract: the arguments of the call and its local
VARIABLES
    imageToConvolve,      \* the template T: [image, mask, variance, xy0, masked]
    imageToNotConvolve,   \* the science image I: [image, mask, variance, xy0]
    convolutionKernel,    \* the Kernel
    background,           \* the scalar or the Function2
    invert,               \* the flag
    convolvedMaskedImage, \* the local that is returned
    cpc                   \* position in convolveAndSubtract

selectorVars == <<itcImage, itcMask, itncMask, xy0, policy, pc, detThreshold, nCleanFp,
                  footprintListIn, i, footprintListOut, itcBits, itncBits,
                  nPass, passThreshold, prevThreshold, everAccepted, lastFp, lastVerdict>>

subtractArgs == <<imageToConvolve, imageToNotConvolve, convolutionKernel, background, invert>>
subtractVars == <<subtractArgs, convolvedMaskedImage, cpc>>

\* SpatialModelCell: one cell, its candidates and its callers
VARIABLES
    nModels,     \* _nModels
    candidates,  \* what building and assessing each candidate will give
    cell,        \* _currentID, _modelIsFixed, and the state of each model
    lastOp,      \* history: the call made last, and the state it began in
    wpc,         \* position of each worker in its call of setCurrentID
    wid          \* the argument of each worker's call

cellVars == <<nModels, candidates, cell, lastOp, wpc, wid>>

\* ImageStatistics: one functor and the pixels it is applied to
VARIABLES
    statPixels,  \* the pixels of the footprint, in the order apply() visits them
    statpc,      \* "made": constructed; "scan": in apply(); "done": apply() returned
    statNext,    \* position in statPixels of the pixel operator() is called on next
    nScans,      \* history: calls of apply() made
    xsum,        \* _xsum
    x2sum,       \* _x2sum
    npix         \* _npix

statsVars == <<statPixels, statpc, statNext, nScans, xsum, x2sum, npix>>

\* a second call of the selector on the same image pair
VARIABLES
    otherCall,  \* the locals of the second call, and history: whether it has
                \* taken a step, whether the first call had ended when it took
                \* its first step, whether the first call had not begun when
                \* it took its last step
    overlap     \* history: one call took a step while the other was under way

otherVars == <<otherCall, overlap>>

\* BuildSpatialKernelVisitor: one visitor and the candidates it is shown
VARIABLES
    spatialOrder,    \* order of the polynomial that is fit over position
    cellCandidates,  \* the candidates of the cells, one per cell
    visited,         \* the candidates processCandidate has been called with
    mMat,            \* accumulated normal matrix of the spatial fit
    bVec,            \* accumulated right-hand sides, one per coefficient
    nCandidates,     \* _nCandidates
    vpc,             \* "visiting"; "solved"; "failed": solveLinearEquation threw
    kernelSolution   \* _kernelSolution, once solved

visitorVars == <<spatialOrder, cellCandidates, visited, mMat, bVec, nCandidates,
                 vpc, kernelSolution>>

\* what a call of the selector does not touch
notSelector == <<subtractVars, cellVars, statsVars, otherVars, visitorVars>>
\* what a call of convolveAndSubtract does not touch
notSubtract == <<selectorVars, cellVars, subtractArgs, statsVars, otherVars, visitorVars>>

vars == <<selectorVars, subtractVars, cellVars, statsVars, otherVars, visitorVars>>

images == <<itcImage, xy0, policy>>

\* "no value yet" for the history variables
None == "none"

\* convolveAndSubtract is not called in a run of the selector
SubtractNotCalled ==
    /\ imageToConvolve = None
    /\ imageToNotConvolve = None
    /\ convolutionKernel = None
    /\ background = None
    /\ invert = FALSE
    /\ convolvedMaskedImage = None
    /\ cpc = "idle"

\* no SpatialModelCell is made in a run of the selector or of convolveAndSubtract
NoCell ==
    /\ nModels = 0
    /\ candidates = << >>
    /\ cell = None
    /\ lastOp = None
    /\ wpc = None
    /\ wid = None

\* no ImageStatistics functor is made
NoStatistics ==
    /\ statPixels = << >>
    /\ statpc = "idle"
    /\ statNext = 1
    /\ nScans = 0
    /\ xsum = Dbl(0, 1)
    /\ x2sum = Dbl(0, 1)
    /\ npix = 0

\* no BuildSpatialKernelVisitor is made
NoVisitor ==
    /\ spatialOrder = 0
    /\ cellCandidates = << >>
    /\ visited = {}
    /\ mMat = << >>
    /\ bVec = << >>
    /\ nCandidates = 0
    /\ vpc = "idle"
    /\ kernelSolution = << >>

\* the locals of a call of the selector that has not been made
NotCalled ==
    [pc |-> "notcalled", detThreshold |-> Frac(0, 1), nCleanFp |-> 0,
     footprintListIn |-> << >>, i |-> 1, footprintListOut |-> << >>,
     itcBits |-> {}, itncBits |-> {},
     started |-> FALSE, afterFirst |-> FALSE, sawFirstIdle |-> FALSE]

\* the selector is called once
NoOtherCall ==
    /\ otherCall = NotCalled
    /\ overlap = FALSE

\* int fpGrowPix = int(fpGrowKsize * ((kCols > kRows) ? kCols : kRows))
fpGrowPix(pol) ==
    (pol.fpGrowKsize.n * (IF pol.kernelCols > pol.kernelRows
                          THEN pol.kernelCols ELSE pol.kernelRows))
        \div pol.fpGrowKsize.d

\* (mutation) the loop stops as soon as a pass accepted one footprint
LoopTest_AnyFootprint(n, minCleanFp, t, tMin) == (n < 1) /\ Greater(t, tMin)

\* (mutation) >= in place of >
LoopTest_Geq(n, minCleanFp, t, tMin) == (n < minCleanFp) /\ ~Greater(tMin, t)

\* the test of the while loop
LoopTest(n, minCleanFp, t, tMin) == (n < minCleanFp) /\ Greater(t, tMin)

\* "footprint has too many pixels"
TooManyPix(fp, fpNpixMax) == getNpix(fp) > fpNpixMax

\* "Ignore if its too close to the edge of the amp image": the test reads the
\* box of the grown footprint as getBBox() returns it, in the parent frame
TooCloseToEdge(bb) ==
    (bb.x0 < 0) \/ (bb.y0 < 0) \/ (bb.x1 > Width) \/ (bb.y1 > Height)

\* The names of the checks of the loop body, in the order of the code
Checks == <<"size", "bounds", "extract", "itc", "itnc">>

\* (mutation) the mask of imageToNotConvolve is not looked at
Examine_SkipNotConvolve(fp, pol, origin, mC, mN, bC, bN) ==
    LET fpGrow == growFootprint(fp, fpGrowPix(pol))
        fpBBox == shift(getBBox(fpGrow), -origin[1], -origin[2])
    IN  IF TooManyPix(fp, pol.fpNpixMax) THEN "size"
        ELSE IF TooCloseToEdge(getBBox(fpGrow)) THEN "bounds"
        ELSE IF SubimageThrows(fpBBox) THEN "extract"
        ELSE IF FindSetBits_apply(bC, mC, origin, fpGrow) # {} THEN "itc"
        ELSE "clean"

\* lines 273-353: the checks of the loop body as the code runs them; the
\* name of the first one that fails, or "clean"
Examine(fp, pol, origin, mC, mN, bC, bN) ==
    LET fpGrow == growFootprint(fp, fpGrowPix(pol))
        fpBBox == shift(getBBox(fpGrow), -origin[1], -origin[2])
    IN  IF TooManyPix(fp, pol.fpNpixMax) THEN "size"
        ELSE IF TooCloseToEdge(getBBox(fpGrow)) THEN "bounds"
        ELSE IF SubimageThrows(fpBBox) THEN "extract"
        ELSE IF FindSetBits_apply(bC, mC, origin, fpGrow) # {} THEN "itc"
        ELSE IF FindSetBits_apply(bN, mN, origin, fpGrow) # {} THEN "itnc"
        ELSE "clean"

\* (mutation) the candidate plane is not cleared when a pass starts
BeginPass_NoClear ==
    /\ pc = "while"
    /\ LoopTest(nCleanFp, policy.minCleanFp, detThreshold, policy.detThresholdMin)
    /\ footprintListIn' = FootprintSet(itcImage, xy0, detThreshold, policy.fpNpixMin)
    /\ footprintListOut' = << >>
    /\ nCleanFp' = 0
    /\ i' = 1
    /\ pc' = "for"
    /\ nPass' = IF nPass < MaxPass THEN nPass + 1 ELSE nPass
    /\ passThreshold' = detThreshold
    /\ prevThreshold' = passThreshold
    /\ lastFp' = None
    /\ lastVerdict' = None
    /\ UNCHANGED <<notSelector, images, detThreshold, itcBits, itncBits, everAccepted,
                   itcMask, itncMask>>

\* (mutation) the list of the pass before is kept
BeginPass_KeepList ==
    /\ pc = "while"
    /\ LoopTest(nCleanFp, policy.minCleanFp, detThreshold, policy.detThresholdMin)
    /\ itcMask' = clearMaskPlane(itcMask, diffimStampCandidateStr)
    /\ itncMask' = clearMaskPlane(itncMask, diffimStampCandidateStr)
    /\ footprintListIn' = FootprintSet(itcImage, xy0, detThreshold, policy.fpNpixMin)
    /\ nCleanFp' = 0
    /\ i' = 1
    /\ pc' = "for"
    /\ nPass' = IF nPass < MaxPass THEN nPass + 1 ELSE nPass
    /\ passThreshold' = detThreshold
    /\ prevThreshold' = passThreshold
    /\ lastFp' = None
    /\ lastVerdict' = None
    /\ UNCHANGED <<notSelector, images, detThreshold, itcBits, itncBits, everAccepted,
                   footprintListOut>>

\* lines 247-270: the loop test succeeds; both candidate planes are cleared,
\* the lists are emptied, detection runs at the current threshold
BeginPass ==
    /\ pc = "while"
    /\ LoopTest(nCleanFp, policy.minCleanFp, detThreshold, policy.detThresholdMin)
    /\ itcMask' = clearMaskPlane(itcMask, diffimStampCandidateStr)
    /\ itncMask' = clearMaskPlane(itncMask, diffimStampCandidateStr)
    /\ footprintListIn' = FootprintSet(itcImage, xy0, detThreshold, policy.fpNpixMin)
    /\ footprintListOut' = << >>
    /\ nCleanFp' = 0
    /\ i' = 1
    /\ pc' = "for"
    /\ nPass' = IF nPass < MaxPass THEN nPass + 1 ELSE nPass
    /\ passThreshold' = detThreshold
    /\ prevThreshold' = passThreshold
    /\ lastFp' = None
    /\ lastVerdict' = None
    /\ UNCHANGED <<notSelector, images, detThreshold, itcBits, itncBits, everAccepted>>

\* (mutation) the footprint as detected, *i, is marked in place of *fpGrow
ExamineFootprint_MarkUngrown ==
    /\ pc = "for"
    /\ i <= Len(footprintListIn)
    /\ LET fp == footprintListIn[i]
           fpGrow == growFootprint(fp, fpGrowPix(policy))
           verdict == Examine(fp, policy, xy0, itcMask, itncMask, itcBits, itncBits)
           bitmask == {diffimStampCandidateStr}
       IN  /\ itcBits' = IF verdict \in {"itc", "itnc", "clean"}
                         THEN FindSetBits_apply(itcBits, itcMask, xy0, fpGrow)
                         ELSE itcBits
           /\ itncBits' = IF verdict \in {"itnc", "clean"}
                          THEN FindSetBits_apply(itncBits, itncMask, xy0, fpGrow)
                          ELSE itncBits
           /\ IF verdict = "clean"
              THEN /\ footprintListOut' = Append(footprintListOut, fpGrow)
                   /\ itcMask' = setMaskFromFootprint(itcMask, xy0, fp, bitmask)
                   /\ itncMask' = setMaskFromFootprint(itncMask, xy0, fp, bitmask)
                   /\ nCleanFp' = nCleanFp + 1
                   /\ everAccepted' = TRUE
              ELSE UNCHANGED <<footprintListOut, itcMask, itncMask, nCleanFp, everAccepted>>
           /\ lastFp' = fp
           /\ lastVerdict' = verdict
    /\ i' = i + 1
    /\ UNCHANGED <<notSelector, images, pc, detThreshold, footprintListIn,
                   nPass, passThreshold, prevThreshold>>

\* lines 271-360: one run of the body of the for loop
ExamineFootprint ==
    /\ pc = "for"
    /\ i <= Len(footprintListIn)
    /\ LET fp == footprintListIn[i]
           fpGrow == growFootprint(fp, fpGrowPix(policy))
           verdict == Examine(fp, policy, xy0, itcMask, itncMask, itcBits, itncBits)
           bitmask == {diffimStampCandidateStr}
       IN  /\ itcBits' = IF verdict \in {"itc", "itnc", "clean"}
                         THEN FindSetBits_apply(itcBits, itcMask, xy0, fpGrow)
                         ELSE itcBits
           /\ itncBits' = IF verdict \in {"itnc", "clean"}
                          THEN FindSetBits_apply(itncBits, itncMask, xy0, fpGrow)
                          ELSE itncBits
           /\ IF verdict = "clean"
              THEN /\ footprintListOut' = Append(footprintListOut, fpGrow)
                   /\ itcMask' = setMaskFromFootprint(itcMask, xy0, fpGrow, bitmask)
                   /\ itncMask' = setMaskFromFootprint(itncMask, xy0, fpGrow, bitmask)
                   /\ nCleanFp' = nCleanFp + 1
                   /\ everAccepted' = TRUE
              ELSE UNCHANGED <<footprintListOut, itcMask, itncMask, nCleanFp, everAccepted>>
           /\ lastFp' = fp
           /\ lastVerdict' = verdict
    /\ i' = i + 1
    /\ UNCHANGED <<notSelector, images, pc, detThreshold, footprintListIn,
                   nPass, passThreshold, prevThreshold>>

\* (mutation) the threshold is not scaled
EndPass_NoScaling ==
    /\ pc = "for"
    /\ i > Len(footprintListIn)
    /\ pc' = "while"
    /\ UNCHANGED <<notSelector, images, itcMask, itncMask, nCleanFp, footprintListIn, i,
                   footprintListOut, itcBits, itncBits, nPass, passThreshold,
                   prevThreshold, everAccepted, lastFp, lastVerdict, detThreshold>>

\* lines 360-362: the for loop is over; detThreshold *= detThresholdScaling
EndPass ==
    /\ pc = "for"
    /\ i > Len(footprintListIn)
    /\ detThreshold' = Times(detThreshold, policy.detThresholdScaling)
    /\ pc' = "while"
    /\ UNCHANGED <<notSelector, images, itcMask, itncMask, nCleanFp, footprintListIn, i,
                   footprintListOut, itcBits, itncBits, nPass, passThreshold,
                   prevThreshold, everAccepted, lastFp, lastVerdict>>

\* lines 363-375: the loop test fails; both candidate planes are cleared; an
\* empty footprintListOut throws, otherwise the list is returned
Finish ==
    /\ pc = "while"
    /\ ~LoopTest(nCleanFp, policy.minCleanFp, detThreshold, policy.detThresholdMin)
    /\ itcMask' = clearMaskPlane(itcMask, diffimStampCandidateStr)
    /\ itncMask' = clearMaskPlane(itncMask, diffimStampCandidateStr)
    /\ pc' = IF Len(footprintListOut) = 0 THEN "thrown" ELSE "returned"
    /\ UNCHANGED <<notSelector, images, detThreshold, nCleanFp, footprintListIn, i,
                   footprintListOut, itcBits, itncBits, nPass, passThreshold,
                   prevThreshold, everAccepted, lastFp, lastVerdict>>

\* --------------------------------------------------------------- inputs
\* Pixel values of imageToConvolve
PixelValues == {0, 1, 2}

\* An image that is 0 but for the pixels p and q
ImageOf(p, vp, q, vq) ==
    [r \in Pixels |-> IF r = p THEN vp ELSE IF r = q THEN vq ELSE 0]

\* The images with at most two pixels above 0
Images == {ImageOf(p, vp, q, vq) : p \in Pixels, q \in Pixels,
                                   vp \in PixelValues, vq \in PixelValues}

CleanMask == [r \in Pixels |-> {}]
MaskOf(p, planes) == [r \in Pixels |-> IF r = p THEN planes ELSE {}]

\* Mask pairs <<mask of imageToConvolve, mask of imageToNotConvolve>> with
\* one pixel marked, on a source of the image: a bad pixel in either image,
\* or a candidate bit left in the mask by earlier processing
MarkedMasks(img) ==
    UNION {{<<MaskOf(p, {BadPlane}), CleanMask>>,
            <<CleanMask, MaskOf(p, {BadPlane})>>,
            <<MaskOf(p, {diffimStampCandidateStr}), CleanMask>>,
            <<CleanMask, MaskOf(p, {diffimStampCandidateStr, diffimStampUsedStr})>>}
           : p \in {r \in Pixels : img[r] > 0}}

\* Origins of the images in the parent frame: a full frame and a sub-image
Origins == {<<0, 0>>, <<2, 1>>}

\* The policy the others are variations of: footprints are not grown
\* (int(0.25 * 2) = 0), passes run at the thresholds 2 and 1
BasePolicy ==
    [fpNpixMin |-> 1, fpNpixMax |-> 2, kernelCols |-> 2, kernelRows |-> 2,
     fpGrowKsize |-> Frac(1, 4), minCleanFp |-> 2, detThreshold |-> Frac(2, 1),
     detThresholdScaling |-> Frac(1, 2), detThresholdMin |-> Frac(1, 2)]

\* footprints grown by int(0.5 * 2) = 1 pixel
GrowPolicy == [BasePolicy EXCEPT !.fpGrowKsize = Frac(1, 2)]
\* only single-pixel footprints pass the size check
SmallPolicy == [BasePolicy EXCEPT !.fpNpixMax = 1]

GeometryPolicies == {BasePolicy, GrowPolicy, SmallPolicy}
MaskPolicies ==
    {BasePolicy, GrowPolicy, [BasePolicy EXCEPT !.detThreshold = Frac(1, 2)]}
ThresholdPolicies ==
    {[BasePolicy EXCEPT !.minCleanFp = 1],
     [BasePolicy EXCEPT !.minCleanFp = 0],
     [BasePolicy EXCEPT !.detThresholdMin = Frac(1, 1)],
     [BasePolicy EXCEPT !.detThresholdMin = Frac(1, 8)],
     [BasePolicy EXCEPT !.detThresholdMin = Frac(2, 1)],
     [BasePolicy EXCEPT !.detThresholdMin = Frac(-1, 1)],
     [BasePolicy EXCEPT !.detThresholdScaling = Frac(1, 1)]}
Policies == GeometryPolicies \cup MaskPolicies \cup ThresholdPolicies

\* The calls of the selector that are followed, for an image: with every
\* origin, with one marked mask, with every threshold schedule.  A call is
\* <<mask of imageToConvolve, mask of imageToNotConvolve, XY0, policy>>.
GeometryCalls == {<<CleanMask, CleanMask, o, pol>> : o \in Origins, pol \in GeometryPolicies}
MaskCalls(img) == {<<m[1], m[2], <<0, 0>>, pol>> : m \in MarkedMasks(img), pol \in MaskPolicies}
ThresholdCalls == {<<CleanMask, CleanMask, <<0, 0>>, pol>> : pol \in ThresholdPolicies}
Calls(img) == GeometryCalls \cup MaskCalls(img) \cup ThresholdCalls

\* lines 205-246: the state at the first test of the while loop
SelectorInit ==
    \E img \in Images :
      \E call \in Calls(img) :
        /\ itcImage = img
        /\ itcMask = call[1]
        /\ itncMask = call[2]
        /\ xy0 = call[3]
        /\ policy = call[4]
        /\ pc = "while"
        /\ detThreshold = call[4].detThreshold
        /\ nCleanFp = 0
        /\ footprintListIn = << >>
        /\ i = 1
        /\ footprintListOut = << >>
        /\ itcBits = {}
        /\ itncBits = {}
        /\ nPass = 0
        /\ passThreshold = None
        /\ prevThreshold = None
        /\ everAccepted = FALSE
        /\ lastFp = None
        /\ lastVerdict = None

\* a single call of the selector, and nothing else
Init ==
    /\ SelectorInit
    /\ SubtractNotCalled
    /\ NoCell
    /\ NoStatistics
    /\ NoOtherCall
    /\ NoVisitor

Next == BeginPass \/ ExamineFootprint \/ EndPass \/ Finish

Spec == Init /\ [][Next]_vars

\* The calls whose policy sets the floor at or below 0 or the scaling at or
\* above 1, on the images whose sources lie in the first row.  The function
\* runs in one thread that nothing preempts for ever: a step that can be
\* taken is taken.
Misconfigured(pol) ==
    \/ ~Greater(pol.detThresholdMin, Frac(0, 1))
    \/ ~Greater(Frac(1, 1), pol.detThresholdScaling)
MisconfiguredInit ==
    /\ Init
    /\ Misconfigured(policy)
    /\ \A p \in Pixels : p[2] > 0 => itcImage[p] = 0
FairSpec == MisconfiguredInit /\ [][Next]_vars /\ WF_vars(Next)

\* ---------------------------------------------------- claims: selector
Ended == pc \in {"returned", "thrown"}

\* the local pixels of a footprint that fits in the image
LocalPixels(fp) == {ToLocal(q, xy0) : q \in fp}

\* The image's bounds in the parent frame hold the box
Contained(bb, origin) ==
    /\ bb.x0 >= origin[1]
    /\ bb.y0 >= origin[2]
    /\ bb.x1 <= origin[1] + Width - 1
    /\ bb.y1 <= origin[2] + Height - 1

RECURSIVE Pow(_, _)
Pow(b, k) == IF k = 0 THEN 1 ELSE b * Pow(b, k - 1)

\* The least k with detThreshold0 * detThresholdScaling^k <= detThresholdMin
\* (defined when the scaling is below 1 and the floor above 0)
RECURSIVE LeastK(_, _)
LeastK(pol, k) ==
    IF pol.detThreshold.n * Pow(pol.detThresholdScaling.n, k) * pol.detThresholdMin.d
         <= pol.detThresholdMin.n * pol.detThreshold.d * Pow(pol.detThresholdScaling.d, k)
    THEN k
    ELSE LeastK(pol, k + 1)

Zero == Frac(0, 1)
One == Frac(1, 1)

\* 0 < detThresholdScaling < 1 and 0 < detThresholdMin < detThreshold0
WellConfigured(pol) ==
    /\ Greater(pol.detThresholdScaling, Zero)
    /\ Greater(One, pol.detThresholdScaling)
    /\ Greater(pol.detThresholdMin, Zero)
    /\ Greater(pol.detThreshold, pol.detThresholdMin)

\* C1: when the selector has returned, re-scanning the two masks over each
\* returned footprint finds no mask bit set.
C1_ReturnedFootprintsUnmasked ==
    pc = "returned" =>
        \A k \in 1 .. Len(footprintListOut) :
            \A p \in LocalPixels(footprintListOut[k]) :
                itcMask[p] = {} /\ itncMask[p] = {}

\* a call on images that carry a marked pixel has returned footprints
C1_Witness ==
    /\ pc = "returned"
    /\ Len(footprintListOut) >= 1
    /\ \E p \in Pixels : BadPlane \in itcMask[p] \cup itncMask[p]

\* C2 (as claimed): the call throws exactly when no pass of the call
\* accepted a footprint.
C2_ThrowsIffNeverAccepted ==
    Ended => ((pc = "thrown") <=> ~everAccepted)

\* C3: when the selector has stopped retrying (it returns a list, or throws),
\* the list holds at least minCleanFp footprints or the threshold is no
\* longer above detThresholdMin.
C3_ReturnsEnoughOrExhausted ==
    Ended =>
        \/ Len(footprintListOut) >= policy.minCleanFp
        \/ ~Greater(detThreshold, policy.detThresholdMin)

\* a list shorter than minCleanFp has been returned
C3_Witness ==
    /\ pc = "returned"
    /\ Len(footprintListOut) < policy.minCleanFp
    /\ nPass >= 2

\* C4: with 0 < detThresholdScaling < 1 and 0 < detThresholdMin <
\* detThreshold0, each pass runs at a threshold strictly below that of the
\* pass before, and at most LeastK passes are run.
C4_DecreasingAndBounded ==
    WellConfigured(policy) =>
        /\ nPass <= LeastK(policy, 0)
        /\ LeastK(policy, 0) < MaxPass
        /\ (nPass >= 2 => Greater(prevThreshold, passThreshold))

\* the bound is reached, after four passes
C4_Witness ==
    /\ WellConfigured(policy)
    /\ nPass = LeastK(policy, 0)
    /\ nPass >= 4
    /\ Ended

\* C5 (as claimed): every call ends, by returning or by throwing.
C5_Terminates == <>Ended

\* C6 (as claimed): after a pass at threshold t that accepted fewer than
\* minCleanFp footprints, a further pass is run if and only if
\* t > detThresholdMin.
C6_RetryIffPassAboveFloor ==
    [][(pc = "while" /\ nPass >= 1 /\ nCleanFp < policy.minCleanFp) =>
          ((pc' = "for") <=> Greater(passThreshold, policy.detThresholdMin))]_vars

\* C6 (amended): after such a pass a further pass is run if and only if the
\* scaled threshold t * detThresholdScaling is above detThresholdMin; that
\* pass runs at the scaled threshold, and no pass runs at a threshold at or
\* below the floor.
C6_RetryIffScaledAboveFloor ==
    [][/\ (pc = "while" /\ nPass >= 1 /\ nCleanFp < policy.minCleanFp) =>
            /\ (pc' = "for") <=>
                   Greater(Times(passThreshold, policy.detThresholdScaling),
                           policy.detThresholdMin)
            /\ (pc' = "for") =>
                   passThreshold' = Times(passThreshold, policy.detThresholdScaling)
       /\ (pc = "while" /\ pc' = "for") =>
            Greater(passThreshold', policy.detThresholdMin)]_vars

\* the pass just finished ran above the floor, accepted too few footprints,
\* and the scaled threshold is not above the floor
C6_Witness ==
    /\ pc = "while"
    /\ nPass >= 1
    /\ nCleanFp < policy.minCleanFp
    /\ Greater(passThreshold, policy.detThresholdMin)
    /\ ~Greater(detThreshold, policy.detThresholdMin)

\* C7: a run of the loop body accepts the footprint if and only if the five
\* checks pass; the first check that fails, in the order size, bounds,
\* extraction, mask of imageToConvolve, mask of imageToNotConvolve, rejects
\* it; the functors of the checks after it are not applied; a rejection
\* leaves both masks and the output list as they are; the loop goes on to
\* the next footprint.
C7_ChecksInOrder ==
    [][(pc = "for" /\ i <= Len(footprintListIn)) =>
        LET fp == footprintListIn[i]
            fpGrow == growFootprint(fp, fpGrowPix(policy))
            sizeOk == getNpix(fp) <= policy.fpNpixMax
            boundsOk == ~TooCloseToEdge(getBBox(fpGrow))
            extractOk == ~SubimageThrows(shift(getBBox(fpGrow), -xy0[1], -xy0[2]))
            geometryOk == sizeOk /\ boundsOk /\ extractOk
            itcOk == \A p \in LocalPixels(fpGrow) : itcMask[p] = {}
            itncOk == \A p \in LocalPixels(fpGrow) : itncMask[p] = {}
            firstFailing ==
                IF ~sizeOk THEN Checks[1]
                ELSE IF ~boundsOk THEN Checks[2]
                ELSE IF ~extractOk THEN Checks[3]
                ELSE IF ~itcOk THEN Checks[4]
                ELSE IF ~itncOk THEN Checks[5]
                ELSE "clean"
            accepted == /\ footprintListOut' = Append(footprintListOut, fpGrow)
                        /\ nCleanFp' = nCleanFp + 1
        IN  /\ lastVerdict' = firstFailing
            /\ accepted <=> (geometryOk /\ itcOk /\ itncOk)
            /\ ~accepted => UNCHANGED <<footprintListOut, nCleanFp, itcMask, itncMask>>
            /\ firstFailing \in {Checks[1], Checks[2], Checks[3]} =>
                   UNCHANGED <<itcBits, itncBits>>
            /\ firstFailing = Checks[4] => UNCHANGED itncBits
            /\ pc' = "for" /\ i' = i + 1 /\ UNCHANGED footprintListIn]_vars

\* a footprint passed four checks and failed the last, and the loop has a
\* further footprint to go on to
C7_Witness ==
    /\ pc = "for"
    /\ lastVerdict = "itnc"
    /\ i <= Len(footprintListIn)

\* C8 (as claimed): a footprint that passed the size check is rejected by
\* the bounds check if and only if its grown bounding box is not contained
\* in the image's bounds.
C8_BoundsRejectIffOutside ==
    (pc = "for" /\ lastVerdict \notin {None, "size"}) =>
        ((lastVerdict = "bounds") <=>
            ~Contained(getBBox(growFootprint(lastFp, fpGrowPix(policy))), xy0))

\* C9 (as claimed): after a successful call every pixel of every returned
\* footprint has the "used" bit set in both masks.
C9_ReturnedFootprintsMarkedUsed ==
    pc = "returned" =>
        \A k \in 1 .. Len(footprintListOut) :
            \A p \in LocalPixels(footprintListOut[k]) :
                /\ diffimStampUsedStr \in itcMask[p]
                /\ diffimStampUsedStr \in itncMask[p]

\* C9 (amended): from its acceptance to the end of the pass every pixel of
\* an accepted footprint has the candidate bit set in both masks; the used
\* bit is set by the selector on no pixel, and after the call has returned
\* the pixels of the returned footprints carry neither bit.
C9_AcceptedMarkedCandidateOnly ==
    \A k \in 1 .. Len(footprintListOut) :
        \A p \in LocalPixels(footprintListOut[k]) :
            /\ pc = "for" => /\ diffimStampCandidateStr \in itcMask[p]
                             /\ diffimStampCandidateStr \in itncMask[p]
            /\ diffimStampUsedStr \notin itcMask[p]
            /\ diffimStampUsedStr \notin itncMask[p]
            /\ pc = "returned" => /\ diffimStampCandidateStr \notin itcMask[p]
                                  /\ diffimStampCandidateStr \notin itncMask[p]

\* two footprints have been accepted in the pass that is running
C9_Witness ==
    /\ pc = "for"
    /\ Len(footprintListOut) = 2

\* C10: no pixel of either mask has the candidate bit set when a detection
\* pass starts, nor when the call has ended.
C10_CandidatePlaneTransient ==
    ((pc = "for" /\ i = 1) \/ Ended) =>
        \A p \in Pixels : /\ diffimStampCandidateStr \notin itcMask[p]
                          /\ diffimStampCandidateStr \notin itncMask[p]

\* a pass starts after an earlier pass accepted a footprint
C10_Witness ==
    /\ pc = "for"
    /\ i = 1
    /\ nPass >= 2
    /\ everAccepted

\* the mask bits of the pixels of the grown footprint the loop body ran on last
OwnBits(mask) ==
    UNION {mask[p] : p \in LocalPixels(growFootprint(lastFp, fpGrowPix(policy)))}

\* C24: the bits a footprint is judged by are the OR of the mask values of
\* its own (grown) pixels: after a rejection for masked pixels the functor
\* holds exactly the bits of that footprint and they are not empty; after an
\* acceptance both functors hold no bit, whatever was scanned before.
C24_BitsOfOwnPixelsOnly ==
    pc = "for" =>
        /\ lastVerdict = "itc" => itcBits = OwnBits(itcMask) /\ itcBits # {}
        /\ lastVerdict = "itnc" =>
               /\ itcBits = {}
               /\ itncBits = OwnBits(itncMask)
               /\ itncBits # {}
        /\ lastVerdict = "clean" => itcBits = {} /\ itncBits = {}

\* the second footprint of a pass was accepted after the first was rejected
\* for a masked pixel
C24_Witness ==
    /\ pc = "for"
    /\ i = 3
    /\ lastVerdict = "clean"
    /\ nCleanFp = 1
    /\ LET first == LocalPixels(growFootprint(footprintListIn[1], fpGrowPix(policy)))
       IN  /\ first \subseteq Pixels
           /\ \E p \in first : itcMask[p] \cup itncMask[p] # {}

\* seq is a subsequence of the grown footprints of the first n entries of
\* the detection list, in the order of that list
InDetectionOrder(seq, n) ==
    \E f \in [1 .. Len(seq) -> 1 .. n] :
        /\ \A j, k \in 1 .. Len(seq) : j < k => f[j] < f[k]
        /\ \A k \in 1 .. Len(seq) :
               seq[k] = growFootprint(footprintListIn[f[k]], fpGrowPix(policy))

\* C26: the output list holds the footprints accepted in the pass begun
\* last and nothing else, in the order detection listed them: a pass starts
\* with an empty list, an acceptance appends the grown footprint, no other
\* step changes the list; nCleanFp is the length of the list; the list
\* returned comes from the detection at the threshold of the last pass.
C26_ReturnsAcceptedOfLastPass ==
    /\ [](/\ nCleanFp = Len(footprintListOut)
          /\ InDetectionOrder(footprintListOut, Min2(i - 1, Len(footprintListIn)))
          /\ pc = "returned" =>
                 footprintListIn =
                     FootprintSet(itcImage, xy0, passThreshold, policy.fpNpixMin))
    /\ [][/\ (pc = "while" /\ pc' = "for") => footprintListOut' = << >>
          /\ (pc = "for" /\ i' = i + 1) =>
                 footprintListOut' =
                     IF lastVerdict' = "clean"
                     THEN Append(footprintListOut,
                                 growFootprint(footprintListIn[i], fpGrowPix(policy)))
                     ELSE footprintListOut
          /\ (pc = "for" /\ pc' = "while") \/ (pc = "while" /\ Ended')
                 => footprintListOut' = footprintListOut]_vars

\* a call returned the two footprints of its second pass, after a first
\* pass that found only the brighter of the two sources
C26_Witness ==
    /\ pc = "returned"
    /\ nPass = 2
    /\ Len(footprintListOut) = 2
    /\ Len(FootprintSet(itcImage, xy0, policy.detThreshold, policy.fpNpixMin)) = 1
    /\ everAccepted

\* C27: the footprints accepted in one pass share no pixel.
C27_AcceptedDisjoint ==
    \A j, k \in 1 .. Len(footprintListOut) :
        j # k => footprintListOut[j] \cap footprintListOut[k] = {}

\* a footprint was rejected because its grown region reaches into the
\* footprint accepted before it in the same pass
C27_Witness ==
    /\ pc = "for"
    /\ lastVerdict = "itc"
    /\ Len(footprintListOut) = 1
    /\ growFootprint(lastFp, fpGrowPix(policy)) \cap footprintListOut[1] # {}
    /\ OwnBits(itcMask) = {diffimStampCandidateStr}

\* C28 (as claimed): a call that has ended has run at least one detection
\* pass.
C28_AtLeastOnePass == Ended => nPass >= 1

(***************************************************************************)
(* Part 2: convolveAndSubtract (ImageSubtract.cc), both overloads: the     *)
(* template is a MaskedImage or a plain Image.  A MaskedImage is a record  *)
(* [image, mask, variance, xy0] of three planes over the local pixels and  *)
(* the origin; pixel values are integers.  A Kernel is a record            *)
(* [cols, rows, ctrX, ctrY, val], val its image by <<column, row>>.        *)
(***************************************************************************)

\* The sum f[0] + ... + f[n - 1]
Sum(f, n) ==
    LET s[m \in 0 .. n] == IF m = 0 THEN 0 ELSE f[m - 1] + s[m - 1]
    IN  s[n]

\* The cells of a kernel, numbered row by row
KernelCell(k, c) == <<c % k.cols, c \div k.cols>>
KernelSize(k) == k.cols * k.rows

\* The pixel of the input image under cell c of the kernel centred on p
Under(p, k, c) ==
    <<p[1] - k.ctrX + KernelCell(k, c)[1], p[2] - k.ctrY + KernelCell(k, c)[2]>>

\* The pixels math::convolve computes: the kernel centred there lies in the
\* image.  The others are the border.
GoodPixels(k) ==
    {p \in Pixels : /\ p[1] - k.ctrX >= 0
                    /\ p[1] - k.ctrX + k.cols - 1 <= Width - 1
                    /\ p[2] - k.ctrY >= 0
                    /\ p[2] - k.ctrY + k.rows - 1 <= Height - 1}

\* math::convolve(out, in, kernel, doNormalize = false) on an Image: the
\* kernel is applied unflipped and as it is; the border is copied from in
convolveImage(img, k) ==
    [p \in Pixels |->
        IF p \in GoodPixels(k)
        THEN Sum([c \in 0 .. KernelSize(k) - 1 |->
                     k.val[KernelCell(k, c)] * img[Under(p, k, c)]], KernelSize(k))
        ELSE img[p]]

\* the mask plane of math::convolve on a MaskedImage: the OR of the mask
\* pixels under the kernel
convolveMask(mask, k) ==
    [p \in Pixels |->
        IF p \in GoodPixels(k)
        THEN UNION {mask[Under(p, k, c)] : c \in 0 .. KernelSize(k) - 1}
        ELSE mask[p]]

\* the variance plane of math::convolve on a MaskedImage: kernel squared
convolveVariance(var, k) ==
    [p \in Pixels |->
        IF p \in GoodPixels(k)
        THEN Sum([c \in 0 .. KernelSize(k) - 1 |->
                     k.val[KernelCell(k, c)] * k.val[KernelCell(k, c)]
                         * var[Under(p, k, c)]], KernelSize(k))
        ELSE var[p]]

NoMask == [p \in Pixels |-> {}]
NoVariance == [p \in Pixels |-> 0]

\* lines 117-119 and 164-166: the local is allocated with the dimensions and
\* the origin of the template and filled by math::convolve: the three planes
\* for a MaskedImage template, the image plane alone for an Image template
convolve(templ, k) ==
    [image |-> convolveImage(templ.image, k),
     mask |-> IF templ.masked THEN convolveMask(templ.mask, k) ELSE NoMask,
     variance |-> IF templ.masked THEN convolveVariance(templ.variance, k)
                  ELSE NoVariance,
     xy0 |-> templ.xy0]

\* image::positionToIndex(pos) for PixelZeroPos = 0: int(floor(pos + 0.5))
positionToIndex(pos) == pos

\* A Function2 of the model is the plane f(x, y) = c0 + cx * x + cy * y
Function2(f, x, y) == f.c0 + f.cx * x + f.cy * y

\* (mutation) the function is evaluated at the position in the parent frame
addFunctionToImage_Parent(img, origin, f) ==
    [p \in Pixels |-> img[p] + Function2(f, origin[1] + p[1], origin[2] + p[2])]

\* addSomethingToImage(image, function): pixel (x, y) of the image, counted
\* from 0 in the image, gets function(x, y) added
addFunctionToImage(img, origin, f) ==
    [p \in Pixels |->
        img[p] + Function2(f, positionToIndex(0) + p[1], positionToIndex(p[2]))]

\* addSomethingToImage(image, value): image += value unless value is 0
addScalarToImage(img, value) ==
    IF value # 0 THEN [p \in Pixels |-> img[p] + value] ELSE img

\* the overload the type of background selects
addSomethingToImage(img, origin, bg) ==
    IF bg.kind = "function" THEN addFunctionToImage(img, origin, bg)
    ELSE addScalarToImage(img, bg.value)

\* (mutation) the operands are taken the other way round
Image_minusEq_Reversed(a, b) == [p \in Pixels |-> b[p] - a[p]]

\* Image::operator-=(Image)
Image_minusEq(a, b) == [p \in Pixels |-> a[p] - b[p]]
\* Image::operator*=(scalar)
Image_timesEq(a, c) == [p \in Pixels |-> a[p] * c]

\* (mutation) the mask of the right-hand side replaces the mask, and the
\* variance of the right-hand side is subtracted like its image
MaskedImage_minusEq_Planes(a, b) ==
    [a EXCEPT !.image = Image_minusEq(a.image, b.image),
              !.mask = b.mask,
              !.variance = Image_minusEq(a.variance, b.variance)]

\* MaskedImage::operator-=(MaskedImage): images subtracted, masks OR-ed,
\* variances added
MaskedImage_minusEq(a, b) ==
    [a EXCEPT !.image = Image_minusEq(a.image, b.image),
              !.mask = [p \in Pixels |-> a.mask[p] \cup b.mask[p]],
              !.variance = [p \in Pixels |-> a.variance[p] + b.variance[p]]]

\* (mutation) the variance is scaled by the factor, not by its square
MaskedImage_timesEq_Linear(a, c) ==
    [a EXCEPT !.image = Image_timesEq(a.image, c),
              !.variance = Image_timesEq(a.variance, c)]

\* MaskedImage::operator*=(scalar): image times c, variance times c * c
MaskedImage_timesEq(a, c) ==
    [a EXCEPT !.image = Image_timesEq(a.image, c),
              !.variance = Image_timesEq(a.variance, c * c)]

\* lines 124 and 171: "Do actual subtraction"
subtract(conv, templ, sci) ==
    IF templ.masked THEN MaskedImage_minusEq(conv, sci)
    ELSE [conv EXCEPT !.image = Image_minusEq(conv.image, sci.image)]

\* (mutation) the flag is read the other way round
doInvert_Negated(conv, templ, inv) ==
    IF inv THEN conv
    ELSE IF templ.masked THEN MaskedImage_timesEq(conv, -1)
    ELSE [conv EXCEPT !.image = Image_timesEq(conv.image, -1)]

\* lines 126-130 and 173-177: "Invert"
doInvert(conv, templ, inv) ==
    IF ~inv THEN conv
    ELSE IF templ.masked THEN MaskedImage_timesEq(conv, -1)
    ELSE [conv EXCEPT !.image = Image_timesEq(conv.image, -1)]

\* lines 178-179: mask <<= and variance <<= of the Image overload
copyPlanes(conv, templ, sci) ==
    IF templ.masked THEN conv
    ELSE [conv EXCEPT !.mask = sci.mask, !.variance = sci.variance]

\* The value a call returns: the statements of the function in their order
convolveAndSubtract(templ, sci, k, bg, inv) ==
    LET convolved == convolve(templ, k)
        withBg == [convolved EXCEPT
                      !.image = addSomethingToImage(convolved.image, convolved.xy0, bg)]
        subtracted == subtract(withBg, templ, sci)
        inverted == doInvert(subtracted, templ, inv)
    IN  copyPlanes(inverted, templ, sci)

\* The selector is not called in a run of convolveAndSubtract
SelectorNotCalled ==
    /\ itcImage = None /\ itcMask = None /\ itncMask = None
    /\ xy0 = None /\ policy = None /\ pc = "idle"
    /\ detThreshold = None /\ nCleanFp = 0
    /\ footprintListIn = << >> /\ i = 1 /\ footprintListOut = << >>
    /\ itcBits = {} /\ itncBits = {}
    /\ nPass = 0 /\ passThreshold = None /\ prevThreshold = None
    /\ everAccepted = FALSE /\ lastFp = None /\ lastVerdict = None

\* lines 117-119, 164-166: allocation, setXY0, math::convolve
Convolve ==
    /\ cpc = "called"
    /\ convolvedMaskedImage' = convolve(imageToConvolve, convolutionKernel)
    /\ cpc' = "convolved"
    /\ UNCHANGED notSubtract

\* lines 121-122, 168-169: "Add in background"
AddBackground ==
    /\ cpc = "convolved"
    /\ convolvedMaskedImage' =
           [convolvedMaskedImage EXCEPT
               !.image = addSomethingToImage(convolvedMaskedImage.image,
                                             convolvedMaskedImage.xy0, background)]
    /\ cpc' = "background"
    /\ UNCHANGED notSubtract

\* (mutation) the local was made as a copy of the template, which shares its
\* pixels: what is written to the local is written to the template
Subtract_Aliased ==
    /\ cpc = "background"
    /\ convolvedMaskedImage' =
           subtract(convolvedMaskedImage, imageToConvolve, imageToNotConvolve)
    /\ imageToConvolve' =
           [imageToConvolve EXCEPT !.image = convolvedMaskedImage'.image]
    /\ cpc' = "subtracted"
    /\ UNCHANGED <<selectorVars, cellVars, statsVars, otherVars, visitorVars,
                   imageToNotConvolve, convolutionKernel, background, invert>>

\* lines 124, 171: "Do actual subtraction"
Subtract ==
    /\ cpc = "background"
    /\ convolvedMaskedImage' =
           subtract(convolvedMaskedImage, imageToConvolve, imageToNotConvolve)
    /\ cpc' = "subtracted"
    /\ UNCHANGED notSubtract

\* lines 126-130, 173-177: "Invert"; the MaskedImage overload returns here
Invert ==
    /\ cpc = "subtracted"
    /\ convolvedMaskedImage' = doInvert(convolvedMaskedImage, imageToConvolve, invert)
    /\ cpc' = IF imageToConvolve.masked THEN "returned" ELSE "inverted"
    /\ UNCHANGED notSubtract

\* lines 178-186: the Image overload copies the mask and the variance of
\* imageToNotConvolve and returns
CopyPlanes ==
    /\ cpc = "inverted"
    /\ convolvedMaskedImage' =
           copyPlanes(convolvedMaskedImage, imageToConvolve, imageToNotConvolve)
    /\ cpc' = "returned"
    /\ UNCHANGED notSubtract

\* ----------------------------------------- inputs of convolveAndSubtract
\* An image with one source, and the image of a gradient
SourceImages == {ImageOf(p, v, p, v) : p \in Pixels, v \in {1, 2}}
Ramp == [p \in Pixels |-> p[1] + 2 * p[2]]

\* Templates: a MaskedImage whose mask is clean or marks the pixels above 0,
\* with a variance that follows the image; or a plain Image
MaskedTemplates ==
    {[image |-> img,
      mask |-> [p \in Pixels |-> IF img[p] > 0 THEN planes ELSE {}],
      variance |-> [p \in Pixels |-> 1 + img[p]],
      xy0 |-> o, masked |-> TRUE] :
        img \in SourceImages, planes \in {{}, {BadPlane}}, o \in Origins}
ImageTemplates ==
    {[image |-> img, mask |-> NoMask, variance |-> NoVariance,
      xy0 |-> o, masked |-> FALSE] : img \in SourceImages, o \in Origins}
Templates == MaskedTemplates \cup ImageTemplates

\* Science images, co-registered with the template: the gradient or a flat
\* image, one marked pixel, a variance of 2 or 3
ScienceImages(o) ==
    {[image |-> Ramp, mask |-> MaskOf(<<1, 1>>, {diffimStampUsedStr}),
      variance |-> [p \in Pixels |-> 2 + (p[1] % 2)], xy0 |-> o],
     [image |-> [p \in Pixels |-> 1], mask |-> NoMask,
      variance |-> [p \in Pixels |-> 2], xy0 |-> o]}

\* Kernels: the identity, a row of three with its centre in the middle, and
\* an all-zero kernel of 3 x 3
DeltaKernel ==
    [cols |-> 1, rows |-> 1, ctrX |-> 0, ctrY |-> 0, val |-> [c \in {<<0, 0>>} |-> 1]]
RowKernel ==
    [cols |-> 3, rows |-> 1, ctrX |-> 1, ctrY |-> 0,
     val |-> [c \in (0 .. 2) \X {0} |-> IF c[1] = 0 THEN 1 ELSE IF c[1] = 1 THEN 2 ELSE -1]]
ZeroKernel ==
    [cols |-> 3, rows |-> 3, ctrX |-> 1, ctrY |-> 1,
     val |-> [c \in (0 .. 2) \X (0 .. 2) |-> 0]]
Kernels == {DeltaKernel, RowKernel, ZeroKernel}

\* Backgrounds: the scalars 0 and 3, and the plane 1 + x + 2y
Backgrounds ==
    {[kind |-> "scalar", value |-> 0],
     [kind |-> "scalar", value |-> 3],
     [kind |-> "function", c0 |-> 1, cx |-> 1, cy |-> 2]}

\* lines 105-111, 152-158: a call with its arguments
SubtractInit ==
    /\ SelectorNotCalled
    /\ NoCell
    /\ NoStatistics
    /\ NoOtherCall
    /\ NoVisitor
    /\ \E templ \in Templates :
         /\ imageToConvolve = templ
         /\ imageToNotConvolve \in ScienceImages(templ.xy0)
    /\ convolutionKernel \in Kernels
    /\ background \in Backgrounds
    /\ invert \in BOOLEAN
    /\ convolvedMaskedImage = None
    /\ cpc = "called"

SubtractNext == Convolve \/ AddBackground \/ Subtract \/ Invert \/ CopyPlanes

SubtractSpec == SubtractInit /\ [][SubtractNext]_vars

\* ----------------------------------------- claims: convolveAndSubtract
Returned == cpc = "returned"

\* The background at the pixel in column p[1] and row p[2] of the image
BackgroundAt(p) ==
    IF background.kind = "function"
    THEN background.c0 + background.cx * p[1] + background.cy * p[2]
    ELSE background.value

\* (K convolved with T) + bg at pixel p
Model(p) == convolveImage(imageToConvolve.image, convolutionKernel)[p] + BackgroundAt(p)

\* I - ((K convolved with T) + bg) at pixel p
Difference(p) == imageToNotConvolve.image[p] - Model(p)

\* C11 (as stated): without invert the call returns the image
\* I - (K convolved with T + bg), with invert the negation of that image.
C11_InvertNegatesDifference ==
    Returned =>
        \A p \in Pixels :
            convolvedMaskedImage.image[p] =
                IF ~invert THEN Difference(p) ELSE -Difference(p)

\* C11 (amended): with invert set the call returns the image
\* I - (K convolved with T + bg), without invert the negation of that image.
C11_NoInvertNegatesDifference ==
    Returned =>
        \A p \in Pixels :
            convolvedMaskedImage.image[p] =
                IF invert THEN Difference(p) ELSE -Difference(p)

C11_Witness ==
    /\ Returned
    /\ ~invert
    /\ \E p \in Pixels : Difference(p) > 0 /\ convolvedMaskedImage.image[p] < 0

\* C12: with invert = true the call returns D = I - (K convolved with T + bg),
\* with invert = false (K convolved with T + bg) - I, for a MaskedImage
\* template and for an Image template.
C12_InvertSelectsScienceMinusModel ==
    Returned =>
        /\ invert =>
              \A p \in Pixels :
                  convolvedMaskedImage.image[p] = imageToNotConvolve.image[p] - Model(p)
        /\ ~invert =>
              \A p \in Pixels :
                  convolvedMaskedImage.image[p] = Model(p) - imageToNotConvolve.image[p]

C12_Witness ==
    /\ Returned
    /\ invert
    /\ ~imageToConvolve.masked
    /\ convolutionKernel = RowKernel
    /\ background.kind = "function"
    /\ \E p \in GoodPixels(convolutionKernel) :
           /\ imageToConvolve.image[p] = 0
           /\ convolveImage(imageToConvolve.image, convolutionKernel)[p] < 0
           /\ convolvedMaskedImage.image[p] # 0

\* C13: for the same arguments, the image plane returned with invert = true
\* is the negation of the one returned with invert = false, the mask and the
\* variance planes are the same in the two results, and inverting a result
\* twice gives it back.
C13_InvertFlipsImageOnly ==
    Returned =>
        LET other == convolveAndSubtract(imageToConvolve, imageToNotConvolve,
                                         convolutionKernel, background, ~invert)
            twice == MaskedImage_timesEq(MaskedImage_timesEq(convolvedMaskedImage, -1), -1)
        IN  /\ \A p \in Pixels : convolvedMaskedImage.image[p] = -other.image[p]
            /\ convolvedMaskedImage.mask = other.mask
            /\ convolvedMaskedImage.variance = other.variance
            /\ twice = convolvedMaskedImage

C13_Witness ==
    /\ Returned
    /\ invert
    /\ imageToConvolve.masked
    /\ \E p \in Pixels :
           /\ convolvedMaskedImage.image[p] # 0
           /\ convolvedMaskedImage.mask[p] # {}
           /\ convolvedMaskedImage.variance[p] > 0

\* C14: for an Image template the mask and the variance of the result are
\* those of imageToNotConvolve; for a MaskedImage template each mask pixel is
\* the OR of the convolved template's and imageToNotConvolve's mask pixels
\* and each variance pixel the sum of their variances.
C14_PlanesCopiedOrCombined ==
    Returned =>
        IF ~imageToConvolve.masked
        THEN /\ convolvedMaskedImage.mask = imageToNotConvolve.mask
             /\ convolvedMaskedImage.variance = imageToNotConvolve.variance
        ELSE \A p \in Pixels :
               /\ convolvedMaskedImage.mask[p] =
                      convolveMask(imageToConvolve.mask, convolutionKernel)[p]
                          \cup imageToNotConvolve.mask[p]
               /\ convolvedMaskedImage.variance[p] =
                      convolveVariance(imageToConvolve.variance, convolutionKernel)[p]
                          + imageToNotConvolve.variance[p]

C14_Witness ==
    /\ Returned
    /\ imageToConvolve.masked
    /\ convolutionKernel = RowKernel
    /\ \E p \in Pixels :
           /\ imageToConvolve.mask[p] = {}
           /\ convolvedMaskedImage.mask[p] = {BadPlane, diffimStampUsedStr}
           /\ convolvedMaskedImage.variance[p] > imageToNotConvolve.variance[p]

\* C15: no step of convolveAndSubtract changes imageToConvolve,
\* imageToNotConvolve (planes and origin), the kernel, the background or the
\* flag: a step writes to the local result only.
C15_InputsUnchanged ==
    [][cpc # "idle" =>
          /\ imageToConvolve' = imageToConvolve
          /\ imageToNotConvolve' = imageToNotConvolve
          /\ convolutionKernel' = convolutionKernel
          /\ background' = background
          /\ invert' = invert]_vars

C15_Witness ==
    /\ Returned
    /\ \E p \in Pixels :
           /\ convolvedMaskedImage.image[p] # imageToConvolve.image[p]
           /\ convolvedMaskedImage.image[p] # imageToNotConvolve.image[p]
    /\ convolvedMaskedImage.mask # imageToConvolve.mask
    /\ convolvedMaskedImage.variance # imageToNotConvolve.variance

\* C30: right after the background has been added, the pixel in column c
\* and row r of the convolved image, counted from 0 in the image, has gained
\* function(c, r) if the background is a function, wherever XY0 puts the
\* image, and v if the background is the scalar v; with v = 0 the image is
\* the convolved image; the other planes are as the convolution left them.
C30_BackgroundAtLocalIndex ==
    cpc = "background" =>
        LET conv == convolve(imageToConvolve, convolutionKernel)
            added(c, r) == IF background.kind = "function"
                           THEN background.c0 + background.cx * c + background.cy * r
                           ELSE background.value
        IN  /\ \A c \in 0 .. Width - 1 : \A r \in 0 .. Height - 1 :
                   convolvedMaskedImage.image[<<c, r>>]
                       = conv.image[<<c, r>>] + added(c, r)
            /\ (background.kind = "scalar" /\ background.value = 0)
                   => convolvedMaskedImage.image = conv.image
            /\ convolvedMaskedImage.mask = conv.mask
            /\ convolvedMaskedImage.variance = conv.variance
            /\ convolvedMaskedImage.xy0 = imageToConvolve.xy0

\* a function was added to an image whose origin is not (0, 0), so that the
\* function at the local and at the parent position differ in every pixel
C30_Witness ==
    /\ cpc = "background"
    /\ background.kind = "function"
    /\ imageToConvolve.xy0 = <<2, 1>>
    /\ \A p \in Pixels :
           Function2(background, p[1], p[2])
               # Function2(background, p[1] + imageToConvolve.xy0[1],
                                       p[2] + imageToConvolve.xy0[2])

(***************************************************************************)
(* Part 3: SpatialModelCell (SpatialModelCell.h) with its models           *)
(* (SpatialModelKernel.h).  The header declares the members and the        *)
(* methods; the bodies of selectBestModel, setCurrentID, incrementModel    *)
(* and isUsable follow the description of the Candidate Cell Manager.      *)
(* Candidates are numbered from 0.  The cell is the record                 *)
(*   currentID     _currentID                                              *)
(*   modelIsFixed  _modelIsFixed                                           *)
(*   built         per model: "no", "yes" (buildModel succeeded) or        *)
(*                 "failed" (buildModel returned false)                    *)
(*   nBuilds       per model: the number of runs of buildModel (history)   *)
(*   wasCurrent    per model: it has been the current one (history)        *)
(***************************************************************************)

\* The largest number of candidates of a cell
MaxModels == 3

\* Residual variances a built model can have (in units of sigma^2)
ResidualVariances == {1, 2}

Ids == 0 .. nModels - 1

\* int getNModels() {return _nModels;}
getNModels == nModels
\* int getCurrentID() {return _currentID;}
getCurrentID(c) == c.currentID
\* bool isFixed() {return _modelIsFixed;}
isFixed(c) == c.modelIsFixed
\* getCurrentModel() {return _modelPtrList[_currentID];}: the index is not
\* checked; the state of the model pointed at
getCurrentModel(c) == c.built[c.currentID]

\* SpatialModelKernel::buildModel(): the per-footprint kernel solve; true
\* when a kernel was found
buildModel(c, id) ==
    [c EXCEPT !.built[id] = IF candidates[id].buildOk THEN "yes" ELSE "failed",
              !.nBuilds[id] = @ + 1]

\* the first statement of setCurrentID: the index is taken
assignCurrentID(c, id) == [c EXCEPT !.currentID = id, !.wasCurrent[id] = TRUE]

\* (mutation) the index is not checked against the list
setCurrentID_Unchecked(c, id) ==
    IF id \in Ids
    THEN LET c1 == assignCurrentID(c, id)
         IN  IF c1.built[id] = "no" THEN buildModel(c1, id) ELSE c1
    ELSE [c EXCEPT !.currentID = id]

\* setCurrentID(id): "index to use; will build model if not built".  An
\* index outside the list is refused and the cell is left as it is.
setCurrentID(c, id) ==
    IF id \notin Ids THEN c
    ELSE LET c1 == assignCurrentID(c, id)
         IN  IF c1.built[id] = "no" THEN buildModel(c1, id) ELSE c1

\* The quality assessment of model id: residual mean near 0 and residual
\* variance near 1; a model that could not be built is rejected
passesQA(c, id) == c.built[id] = "yes" /\ candidates[id].qaPass

\* The models that have residual statistics
Built(c) == {id \in Ids : c.built[id] = "yes"}

\* The best-scoring model whatever its assessment: the lowest residual
\* variance, the earlier one of two equals; the current one when no model
\* was built
bestModel(c) ==
    IF Built(c) = {} THEN c.currentID
    ELSE CHOOSE id \in Built(c) :
            \A other \in Built(c) :
                \/ candidates[id].resVar < candidates[other].resVar
                \/ /\ candidates[id].resVar = candidates[other].resVar
                   /\ id <= other

\* (mutation) the list is exhausted and the last candidate is kept
exhausted_KeepLast(c) == [c EXCEPT !.modelIsFixed = TRUE]

\* The list is exhausted: the cell falls back to its best model and is
\* locked to it
exhausted(c) ==
    [c EXCEPT !.currentID = bestModel(c),
              !.wasCurrent = [id \in Ids |-> @[id] \/ id = bestModel(c)],
              !.modelIsFixed = TRUE]

\* The loop of selectBestModel from the current candidate on: the candidate
\* is built if it is not, and assessed; one that fails is followed by the
\* next one; after the last one the list is exhausted
RECURSIVE assessFrom(_, _)
assessFrom(c, fix) ==
    LET here == setCurrentID(c, c.currentID)
    IN  IF passesQA(here, here.currentID)
        THEN [here EXCEPT !.modelIsFixed = fix]
        ELSE IF here.currentID < nModels - 1
        THEN assessFrom(assignCurrentID(here, here.currentID + 1), fix)
        ELSE exhausted(here)

\* (mutation) a locked cell is assessed again like any other
selectBestModel_IgnoresFixed(c, fix) ==
    IF nModels = 0 THEN c ELSE assessFrom(c, fix)

\* selectBestModel(fix): nothing for a cell without candidates or a locked
\* cell
selectBestModel(c, fix) ==
    IF nModels = 0 \/ c.modelIsFixed THEN c ELSE assessFrom(c, fix)

\* (mutation) the next index is taken without looking at the end of the list
incrementModel_PastEnd(c) ==
    IF nModels = 0 \/ c.modelIsFixed THEN c
    ELSE IF c.currentID + 1 \in Ids THEN setCurrentID(c, c.currentID + 1)
    ELSE [c EXCEPT !.currentID = c.currentID + 1]

\* incrementModel(): "go to next model in list; call its buildModel()
\* method"; at the last candidate the list is exhausted
incrementModel(c) ==
    IF nModels = 0 \/ c.modelIsFixed THEN c
    ELSE IF c.currentID < nModels - 1 THEN setCurrentID(c, c.currentID + 1)
    ELSE exhausted(c)

\* (mutation) usable as soon as the cell has a member
isUsable_AnyMember(c) == nModels > 0

\* isUsable(): "false if no members or all are bad"
isUsable(c) == nModels > 0 /\ \E id \in Ids : c.built[id] # "failed"

\* The workers that may call into one cell
Workers == {1, 2}

\* what a call on the cell does not touch
notCell == <<selectorVars, subtractVars, statsVars, otherVars, visitorVars,
            nModels, candidates>>

Called(op, fix, id) ==
    [op |-> op, fix |-> fix, id |-> id,
     fromID |-> cell.currentID, wasFixed |-> cell.modelIsFixed]

\* a caller runs selectBestModel(fix)
SelectBestModel ==
    \E fix \in BOOLEAN :
        /\ cell' = selectBestModel(cell, fix)
        /\ lastOp' = Called("selectBestModel", fix, 0)
        /\ UNCHANGED <<notCell, wpc, wid>>

\* a caller, the selection loop or the global re-fit that rejected the
\* current candidate, runs incrementModel()
IncrementModel ==
    /\ cell' = incrementModel(cell)
    /\ lastOp' = Called("incrementModel", FALSE, 0)
    /\ UNCHANGED <<notCell, wpc, wid>>

\* a caller runs setCurrentID(id), with an index in the list or next to it
SetCurrentID ==
    \E id \in -1 .. nModels :
        /\ cell' = setCurrentID(cell, id)
        /\ lastOp' = Called("setCurrentID", FALSE, id)
        /\ UNCHANGED <<notCell, wpc, wid>>

\* ------------------------------------------------------ inputs: a cell
\* What building and assessing a candidate gives: no kernel, or a kernel
\* with its assessment and its residual variance
CandidateKinds ==
    {[buildOk |-> FALSE, qaPass |-> FALSE, resVar |-> 1]}
        \cup {[buildOk |-> TRUE, qaPass |-> q, resVar |-> v] :
                 q \in BOOLEAN, v \in ResidualVariances}

\* The cell as its constructor leaves it: the lists stored, the first entry
\* current, no model built, not locked
NewCell(n) ==
    [currentID |-> 0, modelIsFixed |-> FALSE,
     built |-> [id \in 0 .. n - 1 |-> "no"],
     nBuilds |-> [id \in 0 .. n - 1 |-> 0],
     wasCurrent |-> [id \in 0 .. n - 1 |-> id = 0]]

CellInit ==
    /\ SelectorNotCalled
    /\ SubtractNotCalled
    /\ NoStatistics
    /\ NoOtherCall
    /\ NoVisitor
    /\ nModels \in 0 .. MaxModels
    /\ candidates \in [0 .. nModels - 1 -> CandidateKinds]
    /\ cell = NewCell(nModels)
    /\ lastOp = [op |-> "construct", fix |-> FALSE, id |-> 0,
                 fromID |-> 0, wasFixed |-> FALSE]
    /\ wpc = [w \in Workers |-> "idle"]
    /\ wid = [w \in Workers |-> 0]

CellNext == SelectBestModel \/ IncrementModel \/ SetCurrentID

\* One thread makes the calls, each one finished before the next
CellSpec == CellInit /\ [][CellNext]_vars

\* ------------------------------------------------ claims: SpatialModelCell
\* The candidates that pass QA once built, and those that can be built
Passing == {id \in Ids : candidates[id].buildOk /\ candidates[id].qaPass}
Buildable == {id \in Ids : candidates[id].buildOk}

\* id has the lowest residual variance of the candidates in S
LowestVariance(id, S) ==
    S # {} => id \in S /\ \A other \in S : candidates[id].resVar <= candidates[other].resVar

AfterSelect(fix) == lastOp.op = "selectBestModel" /\ lastOp.fix = fix

\* C16 (as stated): for a cell with n >= 1 candidates, selectBestModel(false)
\* leaves the current index at the lowest-index candidate that passes QA, or,
\* when no candidate passes, at the one with the lowest residual variance.
C16_SelectsFirstPassingOfAll ==
    (AfterSelect(FALSE) /\ nModels >= 1) =>
        IF Passing # {} THEN cell.currentID = SetMin(Passing)
        ELSE LowestVariance(cell.currentID, Buildable)

\* C16 (amended): for a cell with n >= 1 candidates that is not locked and
\* whose current index is c, selectBestModel(false) leaves the index at the
\* lowest-index candidate at or after c that passes QA, or, when none of
\* them passes, at the model with the lowest residual variance among the
\* models built so far; a locked cell keeps its index.
C16_SelectsFirstPassingFromCurrent ==
    (AfterSelect(FALSE) /\ nModels >= 1) =>
        LET ahead == {id \in Passing : id >= lastOp.fromID}
        IN  IF lastOp.wasFixed THEN cell.currentID = lastOp.fromID
            ELSE IF ahead # {} THEN cell.currentID = SetMin(ahead)
            ELSE LowestVariance(cell.currentID, Built(cell))

\* three candidates, the first two fail QA, the third passes: index 2
C16_Witness ==
    /\ AfterSelect(FALSE)
    /\ nModels = 3
    /\ lastOp.fromID = 0 /\ ~lastOp.wasFixed
    /\ Passing = {2}
    /\ Buildable = Ids
    /\ cell.currentID = 2

C18_FixedIsTerminal ==
    /\ [](isFixed(cell) => nModels >= 1)
    /\ [][isFixed(cell) =>
            /\ isFixed(cell')
            /\ lastOp'.op \in {"selectBestModel", "incrementModel"} =>
                   cell'.currentID = cell.currentID]_vars

C18_Witness ==
    /\ isFixed(cell)
    /\ lastOp.wasFixed
    /\ AfterSelect(FALSE)
    /\ nModels = 3
    /\ Passing = Ids
    /\ cell.currentID = 0

\* C19 (as stated): isUsable() is false only for a cell without candidates;
\* a cell with a candidate is usable after selectBestModel.
C19_UnusableOnlyIfEmpty ==
    /\ ~isUsable(cell) => nModels = 0
    /\ (lastOp.op = "selectBestModel" /\ nModels >= 1) => isUsable(cell)

\* C19 (amended): isUsable() is false exactly for a cell without candidates
\* and for a cell whose candidates have all been tried and are all bad (no
\* kernel could be built for any of them); a cell with a built candidate is
\* usable after selectBestModel even when every candidate failed QA.
C19_UnusableIffNoGoodMember ==
    /\ ~isUsable(cell) <=>
           (nModels = 0 \/ \A id \in Ids : cell.nBuilds[id] > 0 /\ ~candidates[id].buildOk)
    /\ (lastOp.op = "selectBestModel" /\ Buildable # {} /\ Passing = {}) =>
           isUsable(cell)

C19_Witness ==
    /\ lastOp.op = "selectBestModel"
    /\ nModels = 2
    /\ Buildable = Ids
    /\ Passing = {}
    /\ isFixed(cell)
    /\ isUsable(cell)

\* ------------------------------------------- two workers on one cell
\* setCurrentID(id) as a worker runs it next to another worker: the
\* statements of setCurrentID one at a time.  The classes hold no lock, so
\* nothing keeps the other worker from running between two statements.

\* worker w enters setCurrentID(id) with an index of the list: _currentID = id
Request(w) ==
    \E id \in Ids :
        /\ wpc[w] = "idle"
        /\ lastOp' = Called("setCurrentID", FALSE, id)
        /\ cell' = assignCurrentID(cell, id)
        /\ wid' = [wid EXCEPT ![w] = id]
        /\ wpc' = [wpc EXCEPT ![w] = "test"]
        /\ UNCHANGED notCell

\* worker w tests whether the model is built; a built one ends the call
TestBuilt(w) ==
    /\ wpc[w] = "test"
    /\ wpc' = [wpc EXCEPT ![w] = IF cell.built[wid[w]] = "no" THEN "build" ELSE "idle"]
    /\ UNCHANGED <<notCell, cell, lastOp, wid>>

\* worker w runs buildModel() of the model it found not built
Build(w) ==
    /\ wpc[w] = "build"
    /\ cell' = buildModel(cell, wid[w])
    /\ wpc' = [wpc EXCEPT ![w] = "idle"]
    /\ UNCHANGED <<notCell, lastOp, wid>>

WorkerInit == CellInit /\ nModels >= 1

WorkerNext == \E w \in Workers : Request(w) \/ TestBuilt(w) \/ Build(w)

WorkerSpec == WorkerInit /\ [][WorkerNext]_vars

\* C20: buildModel of a candidate runs only once the candidate has become
\* the current one of its cell, and at most once per candidate, also when
\* two workers ask for the same candidate at the same time; a candidate that
\* was never current is not built.
C20_BuiltOnceWhenCurrent ==
    \A id \in Ids :
        /\ cell.nBuilds[id] <= 1
        /\ cell.nBuilds[id] > 0 => cell.wasCurrent[id]

(***************************************************************************)
(* Part 4: ImageStatistics (ImageSubtract.h), the functor that finds the   *)
(* mean and the variance of the residuals in units of sqrt(variance): one  *)
(* functor, applied to the pixels of a footprint once or twice.            *)
(***************************************************************************)
\* Longest footprint scanned, and calls of apply() followed
MaxStatPix == 3
MaxScans == 2

\* all of VARIABLES but the functor and its pixels
notStats == <<selectorVars, subtractVars, cellVars, otherVars, visitorVars>>

\* ImageStatistics::reset(): _xsum = _x2sum = 0.; _npix = 0
ImageStatistics_reset == [xsum |-> Dbl(0, 1), x2sum |-> Dbl(0, 1), npix |-> 0]

\* ImageStatistics::operator(): the pixel is counted if its mask is 0
ImageStatistics_visit(acc, px) ==
    IF px.mask = {}
    THEN [xsum |-> DAdd(acc.xsum, DDiv(Dbl(px.image, 1), DSqrt(px.variance))),
          x2sum |-> DAdd(acc.x2sum,
                         DDiv(DMul(Dbl(px.image, 1), Dbl(px.image, 1)),
                              Dbl(px.variance, 1))),
          npix |-> acc.npix + 1]
    ELSE acc

\* ImageStatistics::getMean()
getMean(acc) ==
    IF acc.npix > 0 THEN DDiv(acc.xsum, Dbl(acc.npix, 1)) ELSE NaN

\* ImageStatistics::getVariance()
getVariance(acc) ==
    IF acc.npix > 1
    THEN DDiv(DMul(DSub(DDiv(acc.x2sum, Dbl(acc.npix, 1)),
                        DMul(getMean(acc), getMean(acc))),
                   Dbl(acc.npix, 1)),
              Dbl(acc.npix - 1, 1))
    ELSE NaN

\* ImageStatistics::getNpix()
getNpixStat(acc) == acc.npix

\* the accumulator of the functor
Accumulator == [xsum |-> xsum, x2sum |-> x2sum, npix |-> npix]

\* FootprintFunctor::apply(foot), entry: reset() is called
StatApply ==
    /\ statpc \in {"made", "done"}
    /\ nScans < MaxScans
    /\ xsum' = ImageStatistics_reset.xsum
    /\ x2sum' = ImageStatistics_reset.x2sum
    /\ npix' = ImageStatistics_reset.npix
    /\ statNext' = 1
    /\ statpc' = "scan"
    /\ nScans' = nScans + 1
    /\ UNCHANGED <<notStats, statPixels>>

\* FootprintFunctor::apply(foot), loop: operator() on the next pixel
StatVisit ==
    /\ statpc = "scan"
    /\ statNext <= Len(statPixels)
    /\ LET acc == ImageStatistics_visit(Accumulator, statPixels[statNext])
       IN  /\ xsum' = acc.xsum
           /\ x2sum' = acc.x2sum
           /\ npix' = acc.npix
    /\ statNext' = statNext + 1
    /\ UNCHANGED <<notStats, statPixels, statpc, nScans>>

\* FootprintFunctor::apply(foot) returns
StatReturn ==
    /\ statpc = "scan"
    /\ statNext > Len(statPixels)
    /\ statpc' = "done"
    /\ UNCHANGED <<notStats, statPixels, statNext, nScans, xsum, x2sum, npix>>

\* Pixels of a difference image: a value, a variance that is a perfect
\* square (0 where no variance was set), no mask bit; and two masked pixels
StatPixelKinds ==
    {[image |-> v, mask |-> {}, variance |-> var] : v \in {-2, 0, 1}, var \in {0, 1, 4}}
        \cup {[image |-> 1, mask |-> {BadPlane}, variance |-> 1],
              [image |-> 0, mask |-> {BadPlane}, variance |-> 0]}

\* ImageStatistics(mimage): the sums start at 0
StatsInit ==
    /\ SelectorNotCalled
    /\ SubtractNotCalled
    /\ NoCell
    /\ NoOtherCall
    /\ NoVisitor
    /\ \E n \in 0 .. MaxStatPix : statPixels \in [1 .. n -> StatPixelKinds]
    /\ statpc = "made"
    /\ statNext = 1
    /\ nScans = 0
    /\ xsum = Dbl(0, 1)
    /\ x2sum = Dbl(0, 1)
    /\ npix = 0

StatsNext == StatApply \/ StatVisit \/ StatReturn

StatsSpec == StatsInit /\ [][StatsNext]_vars

\* ------------------------------------------- claims: ImageStatistics
\* the positions of the scanned pixels whose mask is 0
Unmasked == {k \in 1 .. Len(statPixels) : statPixels[k].mask = {}}

\* C25 (as claimed): when apply() has returned, getNpix() is the number of
\* scanned pixels with mask 0, getMean() is NaN exactly when that number is
\* 0 and getVariance() is NaN exactly when it is at most 1.
C25_NaNIffTooFewPixels ==
    statpc = "done" =>
        /\ getNpixStat(Accumulator) = Cardinality(Unmasked)
        /\ isnan(getMean(Accumulator)) <=> (Cardinality(Unmasked) = 0)
        /\ isnan(getVariance(Accumulator)) <=> (Cardinality(Unmasked) <= 1)

(***************************************************************************)
(* Part 5: two calls of getCollectionOfFootprintsForPsfMatching on the     *)
(* same image pair.  The calls share the two masks; each has its own       *)
(* locals.  The first call is the one of Part 1; the second may begin at   *)
(* any time, before, during or after the first.                            *)
(***************************************************************************)
\* lines 271-360 as a function: the for loop over the footprints k, k + 1,
\* ... of a detection list, from the masks mC and mN; the list it builds
RECURSIVE examineAll(_, _, _, _, _)
examineAll(k, listIn, mC, mN, listOut) ==
    IF k > Len(listIn) THEN listOut
    ELSE LET fp == listIn[k]
             fpGrow == growFootprint(fp, fpGrowPix(policy))
             bitmask == {diffimStampCandidateStr}
         IN  IF Examine(fp, policy, xy0, mC, mN, {}, {}) = "clean"
             THEN examineAll(k + 1, listIn,
                             setMaskFromFootprint(mC, xy0, fpGrow, bitmask),
                             setMaskFromFootprint(mN, xy0, fpGrow, bitmask),
                             Append(listOut, fpGrow))
             ELSE examineAll(k + 1, listIn, mC, mN, listOut)

\* lines 247-362 as a function: the while loop from the threshold t with the
\* list listOut of n footprints; every pass starts from the masks with the
\* candidate plane cleared
RECURSIVE selectFrom(_, _, _, _, _, _)
selectFrom(t, n, listOut, mC, mN, passes) ==
    IF passes < MaxPass
         /\ LoopTest(n, policy.minCleanFp, t, policy.detThresholdMin)
    THEN LET found == examineAll(1, FootprintSet(itcImage, xy0, t, policy.fpNpixMin),
                                 clearMaskPlane(mC, diffimStampCandidateStr),
                                 clearMaskPlane(mN, diffimStampCandidateStr),
                                 << >>)
         IN  selectFrom(Times(t, policy.detThresholdScaling), Len(found), found,
                        mC, mN, passes + 1)
    ELSE listOut

\* what a call returns: the list, or the exception
Outcome(listOut) == [thrown |-> Len(listOut) = 0, list |-> listOut]

\* getCollectionOfFootprintsForPsfMatching as a function of the masks: the
\* outcome of a call that runs alone
getCollectionOfFootprintsForPsfMatching(mC, mN) ==
    Outcome(selectFrom(policy.detThreshold, 0, << >>, mC, mN, 0))

\* the first call has taken a step; it is under way
FirstStarted == nPass >= 1 \/ Ended
FirstUnderWay == nPass >= 1 /\ ~Ended

OtherEnded == otherCall.pc \in {"returned", "thrown"}

\* history kept at each step of the second call
Stepped(o) ==
    [o EXCEPT !.started = TRUE,
              !.afterFirst = IF o.started THEN o.afterFirst ELSE Ended,
              !.sawFirstIdle = ~FirstStarted]
Overlapped ==
    \/ overlap
    \/ FirstUnderWay
    \/ (otherCall.started /\ otherCall.sawFirstIdle /\ FirstStarted)

\* what a step of the second call leaves alone
notOther == <<subtractVars, cellVars, statsVars, visitorVars, images, pc, detThreshold, nCleanFp,
              footprintListIn, i, footprintListOut, itcBits, itncBits, nPass,
              passThreshold, prevThreshold, everAccepted, lastFp, lastVerdict>>

\* lines 247-270, in the second call
OtherBeginPass ==
    /\ otherCall.pc = "while"
    /\ LoopTest(otherCall.nCleanFp, policy.minCleanFp,
                otherCall.detThreshold, policy.detThresholdMin)
    /\ itcMask' = clearMaskPlane(itcMask, diffimStampCandidateStr)
    /\ itncMask' = clearMaskPlane(itncMask, diffimStampCandidateStr)
    /\ otherCall' =
           [Stepped(otherCall) EXCEPT
               !.footprintListIn =
                   FootprintSet(itcImage, xy0, otherCall.detThreshold, policy.fpNpixMin),
               !.footprintListOut = << >>,
               !.nCleanFp = 0,
               !.i = 1,
               !.pc = "for"]
    /\ overlap' = Overlapped
    /\ UNCHANGED notOther

\* lines 271-360, in the second call
OtherExamineFootprint ==
    /\ otherCall.pc = "for"
    /\ otherCall.i <= Len(otherCall.footprintListIn)
    /\ LET fp == otherCall.footprintListIn[otherCall.i]
           fpGrow == growFootprint(fp, fpGrowPix(policy))
           verdict == Examine(fp, policy, xy0, itcMask, itncMask,
                              otherCall.itcBits, otherCall.itncBits)
           bitmask == {diffimStampCandidateStr}
           clean == verdict = "clean"
       IN  /\ otherCall' =
                  [Stepped(otherCall) EXCEPT
                      !.itcBits = IF verdict \in {"itc", "itnc", "clean"}
                                  THEN FindSetBits_apply(@, itcMask, xy0, fpGrow)
                                  ELSE @,
                      !.itncBits = IF verdict \in {"itnc", "clean"}
                                   THEN FindSetBits_apply(@, itncMask, xy0, fpGrow)
                                   ELSE @,
                      !.footprintListOut = IF clean THEN Append(@, fpGrow) ELSE @,
                      !.nCleanFp = IF clean THEN @ + 1 ELSE @,
                      !.i = @ + 1]
           /\ itcMask' = IF clean
                         THEN setMaskFromFootprint(itcMask, xy0, fpGrow, bitmask)
                         ELSE itcMask
           /\ itncMask' = IF clean
                          THEN setMaskFromFootprint(itncMask, xy0, fpGrow, bitmask)
                          ELSE itncMask
    /\ overlap' = Overlapped
    /\ UNCHANGED notOther

\* lines 360-362, in the second call
OtherEndPass ==
    /\ otherCall.pc = "for"
    /\ otherCall.i > Len(otherCall.footprintListIn)
    /\ otherCall' =
           [Stepped(otherCall) EXCEPT
               !.detThreshold = Times(@, policy.detThresholdScaling),
               !.pc = "while"]
    /\ overlap' = Overlapped
    /\ UNCHANGED <<notOther, itcMask, itncMask>>

\* lines 363-375, in the second call
OtherFinish ==
    /\ otherCall.pc = "while"
    /\ ~LoopTest(otherCall.nCleanFp, policy.minCleanFp,
                 otherCall.detThreshold, policy.detThresholdMin)
    /\ itcMask' = clearMaskPlane(itcMask, diffimStampCandidateStr)
    /\ itncMask' = clearMaskPlane(itncMask, diffimStampCandidateStr)
    /\ otherCall' =
           [Stepped(otherCall) EXCEPT
               !.pc = IF Len(otherCall.footprintListOut) = 0
                      THEN "thrown" ELSE "returned"]
    /\ overlap' = Overlapped
    /\ UNCHANGED notOther

\* Images with a source at (1, 1) and a source two columns to its right
PairImages == {ImageOf(<<1, 1>>, vp, <<3, 1>>, vq) : vp \in {1, 2}, vq \in {1, 2}}

\* lines 205-246, twice: both calls are at their first loop test, with the
\* same policy; the policy is one that makes a single call end
TwoCallInit ==
    /\ SelectorInit
    /\ itcImage \in PairImages
    /\ xy0 = <<0, 0>>
    /\ WellConfigured(policy)
    /\ SubtractNotCalled
    /\ NoCell
    /\ NoStatistics
    /\ NoVisitor
    /\ otherCall = [NotCalled EXCEPT !.pc = "while",
                                     !.detThreshold = policy.detThreshold]
    /\ overlap = FALSE

TwoCallNext ==
    \/ BeginPass \/ ExamineFootprint \/ EndPass \/ Finish
    \/ OtherBeginPass \/ OtherExamineFootprint \/ OtherEndPass \/ OtherFinish

TwoCallSpec == TwoCallInit /\ [][TwoCallNext]_vars

\* --------------------------------------------------- claims: two calls
\* the outcomes of the two calls
FirstOutcome == Outcome(footprintListOut)
OtherOutcome == Outcome(otherCall.footprintListOut)

\* the outcome of a call that runs alone on the image pair
Alone == getCollectionOfFootprintsForPsfMatching(itcMask, itncMask)

\* C23: when the two calls did not interleave (all steps of one came before
\* all steps of the other), each returns what a call that runs alone on the
\* image pair returns.  (The witness is the unsafe case: the calls
\* interleaved and one of them returned something else.)
C23_SerializedCallsAsAlone ==
    (Ended /\ OtherEnded /\ ~overlap) =>
        /\ FirstOutcome = Alone
        /\ OtherOutcome = Alone

\* the calls interleaved, both have ended, and a call returned a list that is
\* not the list a call alone returns, or threw where a call alone returns
C23_Witness ==
    /\ Ended
    /\ OtherEnded
    /\ overlap
    /\ ~Alone.thrown
    /\ FirstOutcome # Alone \/ OtherOutcome # Alone

\* C29: a call made after an earlier call on the same image pair, with the
\* same policy, has ended returns the list the earlier call returned (or
\* throws as it did).
C29_SecondCallReturnsSame ==
    (Ended /\ OtherEnded /\ otherCall.afterFirst) => OtherOutcome = FirstOutcome

\* the first call returned two footprints from its second pass, and the call
\* made after it has returned
C29_Witness ==
    /\ pc = "returned"
    /\ nPass = 2
    /\ Len(footprintListOut) = 2
    /\ otherCall.afterFirst
    /\ otherCall.pc = "returned"

(***************************************************************************)
(* Part 6: BuildSpatialKernelVisitor (BuildSpatialKernelVisitor.h): the    *)
(* visitor is shown the candidates of the cells in some order and then     *)
(* solves for the spatial model.  Each coefficient of the per-cell kernel  *)
(* solutions is fit, by weighted least squares, with a polynomial in the   *)
(* position of the cell.                                                   *)
(***************************************************************************)
\* Most cells shown to a visitor
MaxCandidates == 4

\* Orders of the spatial polynomial: a constant, and a plane
SpatialOrders == {0, 1}

\* free parameters of a 2-D polynomial of the given order
nParameters(order) == ((order + 1) * (order + 2)) \div 2

\* the terms of the polynomial at a position
Terms(order, x, y) == IF order = 0 THEN <<1>> ELSE <<1, x, y>>

\* all of VARIABLES but the visitor's
notVisitor == <<selectorVars, subtractVars, cellVars, statsVars, otherVars>>

\* the empty accumulators of a visitor
NoConstraints(order, nCoeff) ==
    [m |-> [rc \in (1 .. nParameters(order)) \X (1 .. nParameters(order)) |-> 0],
     b |-> [j \in 1 .. nCoeff |-> [r \in 1 .. nParameters(order) |-> 0]]]

\* (mutation) the right-hand side is assigned, not added to
addConstraint_Assign(acc, order, cand) ==
    LET t == Terms(order, cand.x, cand.y)
    IN  [m |-> [rc \in DOMAIN acc.m |->
                   acc.m[rc] + cand.weight * t[rc[1]] * t[rc[2]]],
         b |-> [j \in DOMAIN acc.b |->
                   [r \in DOMAIN acc.b[j] |-> cand.weight * t[r] * cand.coeff[j]]]]

\* the candidate's (position, coefficient vector, weight) is added to the
\* sums of the weighted least-squares fit
addConstraint(acc, order, cand) ==
    LET t == Terms(order, cand.x, cand.y)
    IN  [m |-> [rc \in DOMAIN acc.m |->
                   acc.m[rc] + cand.weight * t[rc[1]] * t[rc[2]]],
         b |-> [j \in DOMAIN acc.b |->
                   [r \in DOMAIN acc.b[j] |->
                       acc.b[j][r] + cand.weight * t[r] * cand.coeff[j]]]]

\* determinant of a 1 x 1 or a 3 x 3 matrix
Det(m, n) ==
    IF n = 1 THEN m[<<1, 1>>]
    ELSE   m[<<1, 1>>] * (m[<<2, 2>>] * m[<<3, 3>>] - m[<<2, 3>>] * m[<<3, 2>>])
         - m[<<1, 2>>] * (m[<<2, 1>>] * m[<<3, 3>>] - m[<<2, 3>>] * m[<<3, 1>>])
         + m[<<1, 3>>] * (m[<<2, 1>>] * m[<<3, 2>>] - m[<<2, 2>>] * m[<<3, 1>>])

\* the solution c of m c = b; a singular m gives values that are not finite
solve(m, b, n) ==
    LET replaced(col) == [rc \in DOMAIN m |-> IF rc[2] = col THEN b[rc[1]] ELSE m[rc]]
    IN  [col \in 1 .. n |-> DDiv(Dbl(Det(replaced(col), n), 1), Dbl(Det(m, n), 1))]

\* (mutation) the number of candidates is not tested
solveLinearEquation_Unchecked(acc, order, n) ==
    [thrown |-> FALSE,
     solution |-> [j \in DOMAIN acc.b |-> solve(acc.m, acc.b[j], nParameters(order))]]

\* solveLinearEquation(): InsufficientDataError if fewer candidates were
\* accumulated than the polynomial has parameters; else the fit of each
\* coefficient
solveLinearEquation(acc, order, n) ==
    IF n < nParameters(order)
    THEN [thrown |-> TRUE, solution |-> << >>]
    ELSE [thrown |-> FALSE,
          solution |-> [j \in DOMAIN acc.b |->
                           solve(acc.m, acc.b[j], nParameters(order))]]

\* processCandidate(candidate): a candidate without a kernel solution is
\* passed over, any other is accumulated and counted
ProcessCandidate ==
    /\ vpc = "visiting"
    /\ \E k \in (1 .. Len(cellCandidates)) \ visited :
         /\ visited' = visited \cup {k}
         /\ IF cellCandidates[k].initialized
            THEN LET acc == addConstraint([m |-> mMat, b |-> bVec], spatialOrder,
                                          cellCandidates[k])
                 IN  /\ mMat' = acc.m
                     /\ bVec' = acc.b
                     /\ nCandidates' = nCandidates + 1
            ELSE UNCHANGED <<mMat, bVec, nCandidates>>
    /\ UNCHANGED <<notVisitor, spatialOrder, cellCandidates, vpc, kernelSolution>>

\* solveLinearEquation()
SolveLinearEquation ==
    /\ vpc = "visiting"
    /\ LET res == solveLinearEquation([m |-> mMat, b |-> bVec], spatialOrder, nCandidates)
       IN  /\ vpc' = IF res.thrown THEN "failed" ELSE "solved"
           /\ kernelSolution' = res.solution
    /\ UNCHANGED <<notVisitor, spatialOrder, cellCandidates, visited, mMat, bVec,
                   nCandidates>>

\* Candidates: at the corners of a unit square, with the coefficient vector
\* (kernel coefficient, background) of a plane over position plus a
\* deviation e, and with weight 1 + e; and a candidate that was never built
CandidateSeq ==
    <<[x |-> 0, y |-> 0, coeff |-> <<1, 3>>, weight |-> 1, initialized |-> TRUE],
      [x |-> 0, y |-> 0, coeff |-> <<2, 4>>, weight |-> 2, initialized |-> TRUE],
      [x |-> 1, y |-> 0, coeff |-> <<2, 2>>, weight |-> 1, initialized |-> TRUE],
      [x |-> 1, y |-> 0, coeff |-> <<3, 3>>, weight |-> 2, initialized |-> TRUE],
      [x |-> 0, y |-> 1, coeff |-> <<3, 3>>, weight |-> 1, initialized |-> TRUE],
      [x |-> 0, y |-> 1, coeff |-> <<4, 4>>, weight |-> 2, initialized |-> TRUE],
      [x |-> 1, y |-> 1, coeff |-> <<4, 2>>, weight |-> 1, initialized |-> TRUE],
      [x |-> 1, y |-> 1, coeff |-> <<6, 1>>, weight |-> 2, initialized |-> TRUE],
      [x |-> 1, y |-> 1, coeff |-> <<0, 0>>, weight |-> 1, initialized |-> FALSE]>>

\* coefficients of a per-cell kernel solution
nCoefficients == Len(CandidateSeq[1].coeff)

\* BuildSpatialKernelVisitor(basisList, regionBBox, policy): nothing is
\* accumulated; the cells hold any multiset of candidates
VisitorInit ==
    /\ SelectorNotCalled
    /\ SubtractNotCalled
    /\ NoCell
    /\ NoStatistics
    /\ NoOtherCall
    /\ spatialOrder \in SpatialOrders
    /\ \E n \in 0 .. MaxCandidates :
         \E f \in [1 .. n -> 1 .. Len(CandidateSeq)] :
            /\ \A j, k \in 1 .. n : j < k => f[j] <= f[k]
            /\ cellCandidates = [k \in 1 .. n |-> CandidateSeq[f[k]]]
    /\ visited = {}
    /\ mMat = NoConstraints(spatialOrder, nCoefficients).m
    /\ bVec = NoConstraints(spatialOrder, nCoefficients).b
    /\ nCandidates = 0
    /\ vpc = "visiting"
    /\ kernelSolution = << >>

VisitorNext == ProcessCandidate \/ SolveLinearEquation

VisitorSpec == VisitorInit /\ [][VisitorNext]_vars

\* ---------------------------------- claims: BuildSpatialKernelVisitor
\* the usable candidates among those shown to the visitor
Usable == {k \in visited : cellCandidates[k].initialized}

\* the sum of g(candidate) over the usable candidates shown, taken in the
\* order of the cells
OverUsable(g(_)) ==
    Sum([c \in 0 .. Len(cellCandidates) - 1 |->
            IF c + 1 \in Usable THEN g(cellCandidates[c + 1]) ELSE 0],
        Len(cellCandidates))

\* the normal equations of the weighted least-squares fit over the usable
\* candidates shown
NormalMatrix ==
    [rc \in (1 .. nParameters(spatialOrder)) \X (1 .. nParameters(spatialOrder)) |->
        LET g(cand) == cand.weight * Terms(spatialOrder, cand.x, cand.y)[rc[1]]
                                   * Terms(spatialOrder, cand.x, cand.y)[rc[2]]
        IN  OverUsable(g)]
RightHandSide(j) ==
    [r \in 1 .. nParameters(spatialOrder) |->
        LET g(cand) == cand.weight * Terms(spatialOrder, cand.x, cand.y)[r] * cand.coeff[j]
        IN  OverUsable(g)]

\* C21: the solution is the weighted least-squares fit over the set of
\* candidates the visitor was shown, whatever the order of the calls of
\* processCandidate that showed them.
C21_SolutionOfCandidateSet ==
    vpc = "solved" =>
        \A j \in 1 .. nCoefficients :
            kernelSolution[j]
                = solve(NormalMatrix, RightHandSide(j), nParameters(spatialOrder))

\* a plane was fit to a coefficient over four different candidates, whose
\* calls can come in 24 orders
C21_Witness ==
    /\ vpc = "solved"
    /\ spatialOrder = 1
    /\ Cardinality(Usable) = 4
    /\ \A j, k \in Usable : j # k => cellCandidates[j] # cellCandidates[k]
    /\ Det(mMat, 3) # 0

====
